---- MODULE Spec2Model ----
(***************************************************************************)
(* State-machine model of miniaudioengine.                                 *)
(*                                                                         *)
(*   SpecRing : LockfreeRingBuffer<T, Size> used by one producer thread    *)
(*              (try_push) and one consumer thread (try_pop); every        *)
(*              atomic load/store and every slot access is one step.       *)
(*   SpecCtl  : AudioStreamController (IAudioController / IController)     *)
(*              over the RtAudio stream handle.                            *)
(*   SpecDp   : one AudioDataPlane driven directly (preload, start, stop,  *)
(*              process_audio with a caller-supplied output buffer).       *)
(*   SpecCb   : the controller, two AudioDataPlanes and the RtAudio        *)
(*              callback AudioCallbackHandler::audio_callback.             *)
(*   SpecTrk  : a Track (play, stop, is_playing) over the controller.      *)
(*   SpecMidi : MidiPortController, MIDI data planes and the RtMidi        *)
(*              callback MidiCallbackHandler::midi_callback, one step per  *)
(*              process_midi_message call, with the control thread         *)
(*              starting and stopping data planes in between.              *)
(*   SpecTree : TrackManager and the Track hierarchy operations.           *)
(*   SpecMidiDecode : the same callback over every raw message of the      *)
(*              sampled bytes, with one stopped data plane, and            *)
(*              Track::handle_midi_message called on a Note On.            *)
(***************************************************************************)
EXTENDS Integers, Sequences, FiniteSets, TLC

\* ------------------------------------------------------------------ bounds
\* Template parameter Size of the ring under analysis.
RingSize == 4
\* The producer offers the items 1..MaxPush, in this order.
MaxPush == 9
\* register_dataplane is called while fewer than MaxRegistered planes are held.
MaxRegistered == 2
\* Audio devices have 0 .. MaxChannels output channels.
MaxChannels == 2
\* process_audio and audio_callback are called with 0 .. MaxFrames frames.
MaxFrames == 1
\* TrackAudioDataPlane::process_audio is called with 0 .. MaxStreamFrames
\* frames.
MaxStreamFrames == 2
\* WAV files hold 0 .. MaxFileFrames frames.
MaxFileFrames == 2
\* A running data plane processes batches while total_batches < MaxBatches.
MaxBatches == 2
\* A raw MIDI message holds 0 .. MaxMessageSize bytes.
MaxMessageSize == 3
\* The MIDI callback is invoked while fewer than MaxCallbacks messages came.
MaxCallbacks == 2
\* Tracks are created while fewer than MaxTracks non-main tracks exist.
MaxTracks == 2
\* The streaming data plane and its WAV files have up to MaxStreamChannels
\* channels.
MaxStreamChannels == 3
\* The DoubleBuffer producer writes and publishes while writes < MaxCycles.
MaxCycles == 3
\* AudioBatchProducer: sample_data has up to MaxSamples samples, pushed in
\* batches of up to MaxBatchSize.
MaxSamples == 5
MaxBatchSize == 3

VARIABLES
  \* ---- LockfreeRingBuffer
  m_buffer,        \* std::array<T, Size>
  m_write_index,   \* std::atomic<size_t>, producer index
  m_read_index,    \* std::atomic<size_t>, consumer index
  p_pc, p_item, p_current_write, p_next_write, p_ret,   \* try_push frame
  c_pc, c_current_read, c_seen, c_item, c_ret,          \* try_pop frame
  pushed,          \* history: items accepted by try_push (returned true)
  popped           \* history: items returned by try_pop (returned true)

ringVars == <<m_buffer, m_write_index, m_read_index,
              p_pc, p_item, p_current_write, p_next_write, p_ret,
              c_pc, c_current_read, c_seen, c_item, c_ret, pushed, popped>>

VARIABLES
  \* ---- IController / IAudioController / AudioStreamController
  m_stream_state,    \* eStreamState
  p_device,          \* IDevicePtr: the output device, or NoDevice
  p_data_planes,     \* std::vector<IDataPlanePtr>: registered data planes
  active_tracks,     \* AudioCallbackContext::active_tracks
  rt_open,           \* RtAudio::isStreamOpen()
  rt_running,        \* RtAudio::isStreamRunning()
  prev_state,        \* history: m_stream_state before its last change
  \* ---- IDataPlane / AudioDataPlane, per data plane
  m_output_channels,
  m_stop_command,            \* std::atomic<bool>; running == ~m_stop_command
  m_read_position,           \* std::atomic<unsigned int>, in frames
  m_preloaded_frames_buffer, \* std::vector<float>, interleaved
  m_output_buffer,           \* std::vector<float>, interleaved
  m_audio_output_stats,      \* AudioOutputStatistics
  \* ---- the last control-plane / data-plane call: its arguments, what it
  \* returned and, for process_audio and audio_callback, the caller's output
  \* buffer as the call left it
  call

ctlVars == <<m_stream_state, p_device, p_data_planes, active_tracks,
             rt_open, rt_running, prev_state>>

dpVars == <<m_stop_command, m_read_position, m_preloaded_frames_buffer,
            m_output_buffer, m_audio_output_stats>>

VARIABLES
  \* ---- Track
  m_is_playing       \* bool, written by Track::play and Track::stop

trkVars == <<m_is_playing>>

VARIABLES
  \* ---- MidiPortController (IMidiController / IController)
  midi_data_planes,    \* std::vector<IDataPlanePtr>: registered data planes
  midi_active_tracks,  \* MidiCallbackContext::active_tracks
  midi_port_open,      \* RtMidiIn::isPortOpen()
  \* ---- MidiDataPlane, per data plane
  midi_stop_command,   \* std::atomic<bool>; running == ~m_stop_command
  m_midi_input_stats,  \* MidiInputStatistics::total_messages_processed
  \* ---- MidiCallbackHandler::midi_callback frame
  cb_message,          \* the raw bytes of the callback in flight / last
  midi_message,        \* MidiMessage decoded from them
  cb_next,             \* index of the next active track to serve, 0 = none
  \* ---- history
  midi_callbacks,      \* number of callbacks that decoded a message
  midi_deliveries,     \* <<callback number, data plane>> per
                       \* process_midi_message call
  user_callbacks       \* the tracks' user callbacks invoked, with arguments

midiVars == <<midi_data_planes, midi_active_tracks, midi_port_open,
              midi_stop_command, m_midi_input_stats, cb_message, midi_message,
              cb_next, midi_callbacks, midi_deliveries, user_callbacks>>

VARIABLES
  \* ---- TrackManager / Track hierarchy; track 0 is m_main_track and the
  \* tracks made so far are 1 .. n_tracks, all still held by their creator
  n_tracks,      \* number of Track objects made by the manager
  m_parent,      \* per track: the parent, or NullTrack
  m_children     \* per track: std::vector<TrackPtr> of its children

treeVars == <<n_tracks, m_parent, m_children>>

VARIABLES
  \* ---- LockfreeRingBuffer::size, called on the producer's or the
  \* consumer's thread (that thread's pc tells where the call is)
  z_current_write, \* size frame: the write index loaded
  z_ret,           \* the value the last size() returned, -1 before it returns
  z_start          \* history: elements stored when the last size() began

sizeVars == <<z_current_write, z_ret, z_start>>

VARIABLES
  \* ---- TrackAudioDataPlane (streaming); its ring p_output_buffer is
  \* m_buffer, m_write_index, m_read_index
  tadp,            \* the data plane's fields
  rd               \* the WavFileReader thread: its position and locals

streamVars == <<tadp, rd>>

VARIABLES
  \* ---- Track (inputs)
  m_audio_input    \* AudioIOVariant: a device, a WAV file or std::nullopt

ioVars == <<m_audio_input>>

VARIABLES
  \* ---- DoubleBuffer with its producer and consumer
  db,              \* the DoubleBuffer's fields; the vectors by their content
  dbp,             \* producer thread: pc, the buffer it holds, publish locals
  dbc              \* consumer thread: pc, the buffer it holds

dbVars == <<db, dbp, dbc>>

VARIABLES
  \* ---- AudioBatchProducer and the test's consuming thread
  bp,              \* the producer's fields and its thread's position
  bc               \* the main thread: position and consumed_data

bpVars == <<bp, bc>>

\* The classes modelled on their own.
moreVars == <<ioVars, dbVars, bpVars>>

vars == <<ringVars, ctlVars, m_output_channels, dpVars, call, trkVars,
          midiVars, treeVars, sizeVars, streamVars, moreVars>>

\* Everything but the ring.
notRing == <<ctlVars, m_output_channels, dpVars, call, trkVars, midiVars,
            treeVars, sizeVars,
            streamVars, moreVars>>

\* Everything but the controller, the channel counts it sets, the track
\* flag, and call.
notTrk == <<ringVars, dpVars, midiVars, treeVars, sizeVars,
            streamVars, moreVars>>

\* Everything but the controller, the channel counts it sets, and call.
notCtl == <<notTrk, trkVars>>

\* Everything but the data planes, their channel counts, and call.
notDp == <<ringVars, ctlVars, trkVars, midiVars, treeVars, sizeVars,
            streamVars, moreVars>>

\* Everything but the MIDI controller, data planes and callback, and call.
notMidi == <<ringVars, ctlVars, m_output_channels, dpVars, trkVars,
            treeVars, sizeVars,
            streamVars, moreVars>>

\* Everything but the track hierarchy, and call.
notTree == <<ringVars, ctlVars, m_output_channels, dpVars, trkVars,
            midiVars, sizeVars,
            streamVars, moreVars>>

\* ------------------------------------------------- LockfreeRingBuffer
\* A slot of the default-constructed std::array holds an indeterminate value.
Uninit == -1
\* What a non-atomic slot access yields when it overlaps a write of the slot.
Torn == -2
\* Return value of the last call: none yet, true or false.
None == "none"
RetTrue == "true"
RetFalse == "false"

Slots == 0 .. (RingSize - 1)

\* try_push: next_write = (current_write + 1) % Size
NextIndex(i) == (i + 1) % RingSize

\* Slip: the full test is left out, all Size slots are used.
PushIsFull_Never(next_write, current_read) == FALSE

\* try_push: if (next_write == current_read) return false
PushIsFull(next_write, current_read) == next_write = current_read

\* Slip: the empty test looks one slot ahead.
PopIsEmpty_OffByOne(current_read, current_write) ==
  NextIndex(current_read) = current_write

\* try_pop: if (current_read == current_write) return false
PopIsEmpty(current_read, current_write) == current_read = current_write

\* Slip: the wrapped branch of size() is forgotten.
SizeOf_NoWrap(current_write, current_read) == current_write - current_read

\* size(): computed from one load of each index
SizeOf(current_write, current_read) ==
  IF current_write >= current_read
    THEN current_write - current_read
    ELSE RingSize - (current_read - current_write)

Min(a, b) == IF a <= b THEN a ELSE b
Max(a, b) == IF a >= b THEN a ELSE b

\* capacity()
Capacity == RingSize - 1

RingInit ==
  /\ m_buffer = [i \in Slots |-> Uninit]
  /\ m_write_index = 0
  /\ m_read_index = 0
  /\ p_pc = "idle" /\ p_item = 0 /\ p_current_write = 0 /\ p_next_write = 0
  /\ p_ret = None
  /\ c_pc = "idle" /\ c_current_read = 0 /\ c_seen = Uninit /\ c_item = Uninit
  /\ c_ret = None
  /\ pushed = <<>>
  /\ popped = <<>>

\* The producer calls try_push(item): the k-th accepted item is k, a rejected
\* item is offered again.
PushCall ==
  /\ p_pc = "idle"
  /\ Len(pushed) < MaxPush
  /\ p_item' = Len(pushed) + 1
  /\ p_ret' = None
  /\ p_pc' = "load_write"
  /\ UNCHANGED <<m_buffer, m_write_index, m_read_index, p_current_write,
                 p_next_write, c_pc, c_current_read, c_seen, c_item, c_ret,
                 pushed, popped>>
  /\ UNCHANGED notRing

\* current_write = m_write_index.load(relaxed); next_write = (current_write + 1) % Size
PushLoadWrite ==
  /\ p_pc = "load_write"
  /\ p_current_write' = m_write_index
  /\ p_next_write' = NextIndex(m_write_index)
  /\ p_pc' = "load_read"
  /\ UNCHANGED <<m_buffer, m_write_index, m_read_index, p_item, p_ret,
                 c_pc, c_current_read, c_seen, c_item, c_ret, pushed, popped>>
  /\ UNCHANGED notRing

\* current_read = m_read_index.load(acquire); full => return false
PushLoadRead ==
  /\ p_pc = "load_read"
  /\ IF PushIsFull(p_next_write, m_read_index)
       THEN p_pc' = "idle" /\ p_ret' = RetFalse
       ELSE p_pc' = "write_begin" /\ p_ret' = p_ret
  /\ UNCHANGED <<m_buffer, m_write_index, m_read_index, p_item,
                 p_current_write, p_next_write,
                 c_pc, c_current_read, c_seen, c_item, c_ret, pushed, popped>>
  /\ UNCHANGED notRing

\* m_buffer[current_write] = item: a plain (non-atomic) store, which a
\* concurrent reader of the slot can observe half-done.
PushWriteBegin ==
  /\ p_pc = "write_begin"
  /\ m_buffer' = [m_buffer EXCEPT ![p_current_write] = Torn]
  /\ p_pc' = "write_end"
  /\ UNCHANGED <<m_write_index, m_read_index, p_item, p_current_write,
                 p_next_write, p_ret,
                 c_pc, c_current_read, c_seen, c_item, c_ret, pushed, popped>>
  /\ UNCHANGED notRing

PushWriteEnd ==
  /\ p_pc = "write_end"
  /\ m_buffer' = [m_buffer EXCEPT ![p_current_write] = p_item]
  /\ p_pc' = "store_write"
  /\ UNCHANGED <<m_write_index, m_read_index, p_item, p_current_write,
                 p_next_write, p_ret,
                 c_pc, c_current_read, c_seen, c_item, c_ret, pushed, popped>>
  /\ UNCHANGED notRing

\* m_write_index.store(next_write, release); return true
PushStoreWrite ==
  /\ p_pc = "store_write"
  /\ m_write_index' = p_next_write
  /\ pushed' = Append(pushed, p_item)
  /\ p_ret' = RetTrue
  /\ p_pc' = "idle"
  /\ UNCHANGED <<m_buffer, m_read_index, p_item, p_current_write,
                 p_next_write,
                 c_pc, c_current_read, c_seen, c_item, c_ret, popped>>
  /\ UNCHANGED notRing

\* The consumer calls try_pop(item).
PopCall ==
  /\ c_pc = "idle"
  /\ c_ret' = None
  /\ c_item' = Uninit
  /\ c_pc' = "load_read"
  /\ UNCHANGED <<m_buffer, m_write_index, m_read_index, p_pc, p_item,
                 p_current_write, p_next_write, p_ret, c_current_read, c_seen,
                 pushed, popped>>
  /\ UNCHANGED notRing

\* current_read = m_read_index.load(relaxed)
PopLoadRead ==
  /\ c_pc = "load_read"
  /\ c_current_read' = m_read_index
  /\ c_pc' = "load_write"
  /\ UNCHANGED <<m_buffer, m_write_index, m_read_index, p_pc, p_item,
                 p_current_write, p_next_write, p_ret, c_seen, c_item, c_ret,
                 pushed, popped>>
  /\ UNCHANGED notRing

\* current_write = m_write_index.load(acquire); empty => return false
PopLoadWrite ==
  /\ c_pc = "load_write"
  /\ IF PopIsEmpty(c_current_read, m_write_index)
       THEN c_pc' = "idle" /\ c_ret' = RetFalse
       ELSE c_pc' = "read_begin" /\ c_ret' = c_ret
  /\ UNCHANGED <<m_buffer, m_write_index, m_read_index, p_pc, p_item,
                 p_current_write, p_next_write, p_ret, c_current_read, c_seen,
                 c_item, pushed, popped>>
  /\ UNCHANGED notRing

\* item = m_buffer[current_read]: a plain (non-atomic) load.
PopReadBegin ==
  /\ c_pc = "read_begin"
  /\ c_seen' = m_buffer[c_current_read]
  /\ c_pc' = "read_end"
  /\ UNCHANGED <<m_buffer, m_write_index, m_read_index, p_pc, p_item,
                 p_current_write, p_next_write, p_ret, c_current_read, c_item,
                 c_ret, pushed, popped>>
  /\ UNCHANGED notRing

PopReadEnd ==
  /\ c_pc = "read_end"
  /\ c_item' = IF m_buffer[c_current_read] = c_seen THEN c_seen ELSE Torn
  /\ c_seen' = Uninit
  /\ c_pc' = "store_read"
  /\ UNCHANGED <<m_buffer, m_write_index, m_read_index, p_pc, p_item,
                 p_current_write, p_next_write, p_ret, c_current_read, c_ret,
                 pushed, popped>>
  /\ UNCHANGED notRing

\* m_read_index.store((current_read + 1) % Size, release); return true
PopStoreRead ==
  /\ c_pc = "store_read"
  /\ m_read_index' = NextIndex(c_current_read)
  /\ popped' = Append(popped, c_item)
  /\ c_ret' = RetTrue
  /\ c_pc' = "idle"
  /\ UNCHANGED <<m_buffer, m_write_index, p_pc, p_item, p_current_write,
                 p_next_write, p_ret, c_current_read, c_seen, c_item,
                 pushed>>
  /\ UNCHANGED notRing

SizeInit == z_current_write = 0 /\ z_ret = -1 /\ z_start = 0

\* Everything but the ring indices' readers: what a size() call leaves alone
\* besides the calling thread's pc.
ringData == <<m_buffer, m_write_index, m_read_index, p_item, p_current_write,
              p_next_write, p_ret, c_current_read, c_seen, c_item, c_ret,
              pushed, popped>>

\* A size() call is in progress on the thread at pc.
InSize(pc) == pc \in {"size_load_write", "size_load_read"}

\* The producer's thread calls size() between two try_push calls, while the
\* consumer pops (one size() call at a time).
SizeCallProducer ==
  /\ p_pc = "idle"
  /\ ~InSize(c_pc)
  /\ p_pc' = "size_load_write"
  /\ z_start' = Len(pushed) - Len(popped)
  /\ z_ret' = -1
  /\ UNCHANGED <<ringData, c_pc, z_current_write>>
  /\ UNCHANGED <<ctlVars, m_output_channels, dpVars, call, trkVars, midiVars,
                 treeVars, streamVars, moreVars>>

\* The consumer's thread calls size() between two try_pop calls, while the
\* producer pushes (one size() call at a time).
SizeCallConsumer ==
  /\ c_pc = "idle"
  /\ ~InSize(p_pc)
  /\ c_pc' = "size_load_write"
  /\ z_start' = Len(pushed) - Len(popped)
  /\ z_ret' = -1
  /\ UNCHANGED <<ringData, p_pc, z_current_write>>
  /\ UNCHANGED <<ctlVars, m_output_channels, dpVars, call, trkVars, midiVars,
                 treeVars, streamVars, moreVars>>

\* size(): current_write = m_write_index.load(acquire)
SizeLoadWrite ==
  /\ "size_load_write" \in {p_pc, c_pc}
  /\ z_current_write' = m_write_index
  /\ p_pc' = IF p_pc = "size_load_write" THEN "size_load_read" ELSE p_pc
  /\ c_pc' = IF c_pc = "size_load_write" THEN "size_load_read" ELSE c_pc
  /\ UNCHANGED <<ringData, z_ret, z_start>>
  /\ UNCHANGED <<ctlVars, m_output_channels, dpVars, call, trkVars, midiVars,
                 treeVars, streamVars, moreVars>>

\* size(): current_read = m_read_index.load(acquire); return the difference
SizeLoadRead ==
  /\ "size_load_read" \in {p_pc, c_pc}
  /\ z_ret' = SizeOf(z_current_write, m_read_index)
  /\ p_pc' = IF p_pc = "size_load_read" THEN "idle" ELSE p_pc
  /\ c_pc' = IF c_pc = "size_load_read" THEN "idle" ELSE c_pc
  /\ UNCHANGED <<ringData, z_current_write, z_start>>
  /\ UNCHANGED <<ctlVars, m_output_channels, dpVars, call, trkVars, midiVars,
                 treeVars, streamVars, moreVars>>

NextRing ==
  \/ PushCall
  \/ PushLoadWrite
  \/ PushLoadRead
  \/ PushWriteBegin
  \/ PushWriteEnd
  \/ PushStoreWrite
  \/ PopCall
  \/ PopLoadRead
  \/ PopLoadWrite
  \/ PopReadBegin
  \/ PopReadEnd
  \/ PopStoreRead

\* ------------------------------------------------------------ controller
\* eStreamState
Idle == "Idle"
Stopped == "Stopped"
Playing == "Playing"
Monitor == "Monitor"

\* The data planes of the engine: two audio data planes and one data plane
\* that is not an AudioDataPlane (dynamic_pointer_cast yields nullptr).
AudioPlanes == {"a1", "a2"}
OtherPlanes == {"m1"}
Planes == AudioPlanes \cup OtherPlanes

\* p_device == nullptr
NoDevice == [output_channels |-> -1]
\* AudioDevice, by its output_channels
AudioDevices == [output_channels : 0 .. MaxChannels]

\* AudioDevice::is_output
IsOutput(device) == device.output_channels > 0

\* A call, what it returned, and for the data-plane calls the data plane,
\* n_frames and the output buffer.
CalledWith(op, ret, dp, n_frames, out) ==
  [op |-> op, ret |-> ret, dp |-> dp, n_frames |-> n_frames, out |-> out]
CalledOn(op, ret, dp, n_frames) == CalledWith(op, ret, dp, n_frames, <<>>)
Called(op, ret) == CalledOn(op, ret, None, 0)

CtlInit ==
  /\ m_stream_state = Idle
  /\ p_device = NoDevice
  /\ p_data_planes = <<>>
  /\ active_tracks = <<>>
  /\ rt_open = FALSE
  /\ rt_running = FALSE
  /\ prev_state = None

ChanInit == m_output_channels = [p \in Planes |-> 0]

CallInit == call = Called(None, None)

\* IController::set_output_device: throws on a null or non-output device.
SetOutputDevice(device) ==
  /\ IF device = NoDevice \/ ~IsOutput(device)
       THEN /\ call' = Called("set_output_device", "throws")
            /\ UNCHANGED p_device
       ELSE /\ call' = Called("set_output_device", "void")
            /\ p_device' = device
  /\ UNCHANGED <<m_stream_state, p_data_planes, active_tracks, rt_open,
                 rt_running, prev_state, m_output_channels>>
  /\ UNCHANGED notCtl

\* IController::register_dataplane
RegisterDataplane(dp) ==
  /\ Len(p_data_planes) < MaxRegistered
  /\ p_data_planes' = Append(p_data_planes, dp)
  /\ call' = Called("register_dataplane", "void")
  /\ UNCHANGED <<m_stream_state, p_device, active_tracks, rt_open,
                 rt_running, prev_state, m_output_channels>>
  /\ UNCHANGED notCtl

\* Slip: the Playing test is left out.
ValidateStartPreconditions_NoStateTest == p_device # NoDevice

\* IAudioController::validate_start_preconditions (the callback context is
\* created by the constructor and never reset)
ValidateStartPreconditions ==
  /\ m_stream_state # Playing
  /\ p_device # NoDevice

\* IAudioController::register_dataplanes: the active list it builds
IsAudioPlane(dp) == dp \in AudioPlanes
ActiveOf(dataplanes) == SelectSeq(dataplanes, IsAudioPlane)

Range(seq) == {seq[i] : i \in 1 .. Len(seq)}

\* IAudioController::register_dataplanes: set_output_channels on each
\* active track
ChannelsAfterRegister(active) ==
  [p \in Planes |-> IF p \in Range(active)
                       THEN p_device.output_channels
                       ELSE m_output_channels[p]]

\* Slip: Playing is set although startStream failed.
StateAfterFailedStart_Playing == Playing

\* AudioStreamController::start: the state after "return false"
StateAfterFailedStart == m_stream_state

\* AudioStreamController::stop: the state after "return false"
StateAfterFailedStop == m_stream_state

\* Slip: stop goes back to Idle.
StateAfterStop_Idle == Idle

\* AudioStreamController::stop: m_stream_state = eStreamState::Stopped
StateAfterStop == Stopped

\* history: the state left by a call that sets m_stream_state to new
PrevAfter(new) == IF new # m_stream_state THEN m_stream_state ELSE prev_state

\* AudioStreamController::start, reached through the call op
StartStream(op) ==
  /\ UNCHANGED <<p_device, p_data_planes>>
  /\ UNCHANGED notTrk
  /\ IF ~ValidateStartPreconditions
       THEN \* validate_start_preconditions() returned false
            /\ call' = Called(op, RetFalse)
            /\ UNCHANGED <<m_stream_state, active_tracks, rt_open, rt_running,
                           m_output_channels>>
       ELSE IF p_data_planes = <<>>
       THEN \* register_dataplanes(): nothing registered
            /\ call' = Called(op, RetFalse)
            /\ UNCHANGED <<m_stream_state, active_tracks, rt_open, rt_running,
                           m_output_channels>>
       ELSE
         /\ active_tracks' = ActiveOf(p_data_planes)
         /\ m_output_channels' = ChannelsAfterRegister(ActiveOf(p_data_planes))
         /\ IF ActiveOf(p_data_planes) = <<>>
              THEN \* register_dataplanes(): no audio data plane
                   /\ call' = Called(op, RetFalse)
                   /\ UNCHANGED <<m_stream_state, rt_open, rt_running>>
              ELSE IF rt_open
              THEN \* openStream on an open stream: RTAUDIO_INVALID_USE
                   /\ call' = Called(op, RetFalse)
                   /\ m_stream_state' = StateAfterFailedStart
                   /\ UNCHANGED <<rt_open, rt_running>>
              ELSE
                \/ \* openStream fails
                   /\ call' = Called(op, RetFalse)
                   /\ m_stream_state' = StateAfterFailedStart
                   /\ UNCHANGED <<rt_open, rt_running>>
                \/ \* openStream succeeds, startStream fails
                   /\ rt_open' = TRUE
                   /\ call' = Called(op, RetFalse)
                   /\ m_stream_state' = StateAfterFailedStart
                   /\ UNCHANGED rt_running
                \/ \* both succeed
                   /\ rt_open' = TRUE
                   /\ rt_running' = TRUE
                   /\ m_stream_state' = Playing
                   /\ call' = Called(op, RetTrue)
  /\ prev_state' = PrevAfter(m_stream_state')

\* AudioStreamController::start called directly
Start == StartStream("start") /\ UNCHANGED trkVars

\* Slip: stop only refuses in Idle.
StopNotPlaying_OnlyIdle == m_stream_state = Idle

\* AudioStreamController::stop: if (m_stream_state != eStreamState::Playing)
StopNotPlaying == m_stream_state # Playing

\* Slip: stop leaves the registered data planes in place.
PlanesAfterStop_Kept == p_data_planes

\* AudioStreamController::stop: clear_registered_dataplane()
PlanesAfterStop == <<>>

\* AudioStreamController::stop, reached through the call op
StopStream(op) ==
  /\ UNCHANGED <<p_device, active_tracks, m_output_channels>>
  /\ UNCHANGED notTrk
  /\ IF StopNotPlaying
       THEN /\ call' = Called(op, RetFalse)
            /\ UNCHANGED <<m_stream_state, p_data_planes, rt_open, rt_running>>
       ELSE
         \/ \* the stream is running and stopStream fails; the backend may or
            \* may not have halted the stream
            /\ rt_running
            /\ rt_running' \in BOOLEAN
            /\ call' = Called(op, RetFalse)
            /\ m_stream_state' = StateAfterFailedStop
            /\ UNCHANGED <<p_data_planes, rt_open>>
         \/ \* stopStream succeeds or is skipped; closeStream;
            \* clear_registered_dataplane
            /\ rt_running' = FALSE
            /\ rt_open' = FALSE
            /\ p_data_planes' = PlanesAfterStop
            /\ m_stream_state' = StateAfterStop
            /\ call' = Called(op, RetTrue)
  /\ prev_state' = PrevAfter(m_stream_state')

\* AudioStreamController::stop called directly
Stop == StopStream("stop") /\ UNCHANGED trkVars

\* ------------------------------------------------------------------ Track
TrkInit == m_is_playing = FALSE

\* Slip: is_playing() answers from the flag play() and stop() write.
IsPlaying_Flag == m_is_playing

\* Track::is_playing / MainTrack::is_playing
IsPlaying == m_stream_state = Playing

\* Track::play: sets the flag, then starts the stream; call.ret is what the
\* stream start came to.
Play ==
  /\ m_is_playing' = TRUE
  /\ StartStream("play")

\* Track::stop: clears the flag, then stops the stream; call.ret is what the
\* stream stop came to.
TrackStop ==
  /\ m_is_playing' = FALSE
  /\ StopStream("track_stop")

\* -------------------------------------------------------------- MainTrack
\* MidiPortController::start: bool start() override { return false; }
MidiControllerStart == FALSE

\* MidiPortController::stop: bool stop() override { return false; }
MidiControllerStop == FALSE

\* MainTrack::start: p_audio_controller->start() && p_midi_controller->start()
MainTrackStartReturns(audio_ret) == audio_ret = RetTrue /\ MidiControllerStart

\* MainTrack::stop: p_audio_controller->stop() && p_midi_controller->stop()
MainTrackStopReturns(audio_ret) == audio_ret = RetTrue /\ MidiControllerStop

\* MainTrack::start; call.ret is what the audio controller's start came to,
\* MainTrackStartReturns(call.ret) what MainTrack::start returns
MainTrackStart ==
  /\ StartStream("main_track_start")
  /\ UNCHANGED trkVars

\* MainTrack::stop: close_input_port() finds no MIDI port open and returns;
\* call.ret is what the audio controller's stop came to,
\* MainTrackStopReturns(call.ret) what MainTrack::stop returns
MainTrackStop ==
  /\ ~midi_port_open
  /\ StopStream("main_track_stop")
  /\ UNCHANGED trkVars

\* ------------------------------------------------------- AudioDataPlane
\* A WAV file of `channels` channels and `total_frames` frames; its k-th
\* interleaved sample is k (never 0, which is silence).
WavFiles == [channels : 1 .. MaxChannels, total_frames : 0 .. MaxFileFrames]
WavSamples(wav_file) ==
  [k \in 1 .. (wav_file.total_frames * wav_file.channels) |-> k]

\* A caller's output buffer before the call: room for the largest request,
\* contents indeterminate.
FreshOut == [k \in 1 .. (MaxFrames * MaxChannels) |-> Uninit]

DpInit ==
  /\ m_stop_command = [p \in AudioPlanes |-> TRUE]
  /\ m_read_position = [p \in AudioPlanes |-> 0]
  /\ m_preloaded_frames_buffer = [p \in AudioPlanes |-> <<>>]
  /\ m_output_buffer = [p \in AudioPlanes |-> <<>>]
  /\ m_audio_output_stats =
       [p \in AudioPlanes |->
          [total_frames_read |-> 0, total_batches |-> 0, batch_size_frames |-> 0]]

\* IDataPlane::is_running
IsRunning(p) == ~m_stop_command[p]

\* IDataPlane::set_output_channels
SetOutputChannels(p, channels) ==
  /\ m_output_channels' = [m_output_channels EXCEPT ![p] = channels]
  /\ call' = CalledOn("set_output_channels", "void", p, 0)
  /\ UNCHANGED dpVars
  /\ UNCHANGED notDp

\* AudioDataPlane::start
DpStart(p) ==
  /\ m_stop_command' = [m_stop_command EXCEPT ![p] = FALSE]
  /\ m_read_position' = [m_read_position EXCEPT ![p] = 0]
  /\ call' = CalledOn("dp_start", "void", p, 0)
  /\ UNCHANGED <<m_preloaded_frames_buffer, m_output_buffer,
                 m_audio_output_stats, m_output_channels>>
  /\ UNCHANGED notDp

\* AudioDataPlane::stop
DpStop(p) ==
  /\ m_stop_command' = [m_stop_command EXCEPT ![p] = TRUE]
  /\ m_preloaded_frames_buffer' = [m_preloaded_frames_buffer EXCEPT ![p] = <<>>]
  /\ call' = CalledOn("dp_stop", "void", p, 0)
  /\ UNCHANGED <<m_read_position, m_output_buffer, m_audio_output_stats,
                 m_output_channels>>
  /\ UNCHANGED notDp

\* AudioDataPlane::preload_wav_file (wav_file not null)
PreloadWavFile(p, wav_file) ==
  /\ IF IsRunning(p)
       THEN UNCHANGED <<m_read_position, m_preloaded_frames_buffer>>
       ELSE /\ m_read_position' = [m_read_position EXCEPT ![p] = 0]
            /\ m_preloaded_frames_buffer' =
                 [m_preloaded_frames_buffer EXCEPT ![p] = WavSamples(wav_file)]
  /\ call' = CalledOn("preload_wav_file", "void", p, 0)
  /\ UNCHANGED <<m_stop_command, m_output_buffer, m_audio_output_stats,
                 m_output_channels>>
  /\ UNCHANGED notDp

\* The state process_audio reads and writes, as one value.
DpState ==
  [rp |-> m_read_position, ob |-> m_output_buffer, st |-> m_audio_output_stats,
   hw |-> FreshOut]

\* std::fill_n(out, count, 0.0f)
ZeroFill(buffer, count) ==
  [k \in 1 .. Len(buffer) |-> IF k <= count THEN 0 ELSE buffer[k]]

\* out[k] = samples[k] for the samples written
WriteTo(buffer, samples) ==
  [k \in 1 .. Len(buffer) |-> IF k <= Len(samples) THEN samples[k] ELSE buffer[k]]

\* AudioDataPlane::process_audio, the fill loop: sample at interleaved
\* position k (from 1) of a batch of n_frames read at read_pos
BatchSample(p, read_pos, k) ==
  LET oc == m_output_channels[p]
      i == (k - 1) \div oc
      ch == (k - 1) % oc
      buffer_index == (read_pos + i) * oc + ch
  IN IF buffer_index < Len(m_preloaded_frames_buffer[p])
       THEN m_preloaded_frames_buffer[p][buffer_index + 1]
       ELSE 0

Batch(p, read_pos, n_frames) ==
  [k \in 1 .. (n_frames * m_output_channels[p]) |-> BatchSample(p, read_pos, k)]

\* AudioDataPlane::process_audio: m_read_position.fetch_add(n_frames)
AdvanceReadPosition(read_pos, n_frames) == read_pos + n_frames

\* AudioDataPlane::update_audio_output_statistics (the wall-clock fields
\* are left out)
UpdateStatistics(stats, n_frames) ==
  [total_frames_read |-> stats.total_frames_read + n_frames,
   total_batches |-> stats.total_batches + 1,
   batch_size_frames |-> n_frames]

\* Frames the preloaded buffer holds for a data plane, counted as
\* process_audio addresses it (rounded up).
PreloadedFrames(p) ==
  LET oc == m_output_channels[p]
      len == Len(m_preloaded_frames_buffer[p])
  IN IF oc = 0 THEN len ELSE (len + oc - 1) \div oc

\* Slip: a stopped data plane leaves the output buffer as it found it.
SilenceWhenStopped_Skipped(buffer, count) == buffer

\* AudioDataPlane::process_audio, the stopped branch
SilenceWhenStopped(buffer, count) == ZeroFill(buffer, count)

\* AudioDataPlane::process_audio on the state S; out_null tells that
\* output_buffer is nullptr, else S.hw is the caller's buffer.
ProcessAudioOn(S, p, out_null, n_frames) ==
  IF out_null THEN S
  ELSE IF ~IsRunning(p)
    THEN [S EXCEPT !.hw = SilenceWhenStopped(S.hw, n_frames * m_output_channels[p])]
  ELSE LET batch == Batch(p, S.rp[p], n_frames)
       IN [S EXCEPT !.ob[p] = batch,
                    !.hw = WriteTo(S.hw, batch),
                    !.rp[p] = AdvanceReadPosition(S.rp[p], n_frames),
                    !.st[p] = UpdateStatistics(S.st[p], n_frames)]

\* A direct call of AudioDataPlane::process_audio
ProcessAudio(p, out_null, n_frames) ==
  /\ IsRunning(p) /\ ~out_null =>
       m_audio_output_stats[p].total_batches < MaxBatches
  /\ LET S == ProcessAudioOn(DpState, p, out_null, n_frames)
     IN /\ m_read_position' = S.rp
        /\ m_output_buffer' = S.ob
        /\ m_audio_output_stats' = S.st
        /\ call' = IF out_null
                     THEN CalledOn("process_audio", "null", p, n_frames)
                     ELSE CalledWith("process_audio", "void", p, n_frames, S.hw)
  /\ UNCHANGED <<m_stop_command, m_preloaded_frames_buffer, m_output_channels>>
  /\ UNCHANGED notDp

\* ------------------------------------------------- AudioCallbackHandler
\* Slip: the track's sample is stored, not added.
MixInto_Overwrite(buffer, track_buffer, total_samples) ==
  [k \in 1 .. Len(buffer) |->
     IF k <= Len(track_buffer) /\ k <= total_samples
       THEN track_buffer[k]
       ELSE buffer[k]]

\* out_buffer[i] += track_buffer[i] for i < min(track_buffer.size(), total)
MixInto(buffer, track_buffer, total_samples) ==
  [k \in 1 .. Len(buffer) |->
     IF k <= Len(track_buffer) /\ k <= total_samples
       THEN buffer[k] + track_buffer[k]
       ELSE buffer[k]]

\* audio_callback: the output_buffer argument it hands to process_audio is
\* nullptr
CallbackPassesNull == TRUE

\* audio_callback: the loop over context->active_tracks
RECURSIVE CallbackLoop(_, _, _, _)
CallbackLoop(S, tracks, n_frames, total_samples) ==
  IF tracks = <<>> THEN S
  ELSE LET track_data == Head(tracks)
           S1 == ProcessAudioOn(S, track_data, CallbackPassesNull, n_frames)
           S2 == [S1 EXCEPT !.hw = MixInto(S1.hw, S1.ob[track_data], total_samples)]
       IN CallbackLoop(S2, Tail(tracks), n_frames, total_samples)

\* Slip: the output pointer is not tested.
OutputMissing_Ignored(out_null) == FALSE

\* audio_callback: output_buffer == nullptr
OutputMissing(out_null) == out_null

\* AudioCallbackHandler::audio_callback; ctx_null tells that user_data is
\* nullptr (else it is the controller's AudioCallbackContext), out_null that
\* output_buffer is nullptr.
AudioCallback(ctx_null, out_null, n_frames) ==
  /\ \A p \in Range(active_tracks) :
       IsRunning(p) => m_audio_output_stats[p].total_batches < MaxBatches
  /\ IF \/ ctx_null
        \/ OutputMissing(out_null)
        \/ active_tracks = <<>>
        \/ n_frames * m_output_channels[Head(active_tracks)] = 0
       THEN /\ call' = IF ctx_null
                         THEN CalledOn("audio_callback", "1", None, n_frames)
                         ELSE IF OutputMissing(out_null)
                         THEN CalledOn("audio_callback", "0null", None, n_frames)
                         ELSE CalledWith("audio_callback", "0", None, n_frames,
                                         FreshOut)
            /\ UNCHANGED <<m_read_position, m_output_buffer, m_audio_output_stats>>
       ELSE LET total_samples == n_frames * m_output_channels[Head(active_tracks)]
                S0 == [DpState EXCEPT !.hw = ZeroFill(FreshOut, total_samples)]
                S == CallbackLoop(S0, active_tracks, n_frames, total_samples)
            IN /\ m_read_position' = S.rp
               /\ m_output_buffer' = S.ob
               /\ m_audio_output_stats' = S.st
               /\ call' = CalledWith("audio_callback", "0", None, n_frames, S.hw)
  /\ UNCHANGED <<m_stop_command, m_preloaded_frames_buffer, m_output_channels>>
  /\ UNCHANGED notDp

\* The output device SpecCb sets.
CbDevices == {[output_channels |-> MaxChannels]}

\* The stream controller, the data planes' start/stop and the callback.
\* The ring with size() called on either thread.
NextRingSize ==
  \/ NextRing
  \/ SizeCallProducer
  \/ SizeCallConsumer
  \/ SizeLoadWrite
  \/ SizeLoadRead

NextCb ==
  \/ \E device \in CbDevices : SetOutputDevice(device)
  \/ \E dp \in AudioPlanes : RegisterDataplane(dp)
  \/ Start
  \/ Stop
  \/ \E p \in AudioPlanes : DpStart(p)
  \/ \E p \in AudioPlanes : DpStop(p)
  \/ \E ctx_null \in BOOLEAN, out_null \in BOOLEAN, n_frames \in 0 .. MaxFrames :
        AudioCallback(ctx_null, out_null, n_frames)

\* The data plane SpecDp drives.
DpPlanes == {"a1"}

NextDp ==
  \/ \E p \in DpPlanes, channels \in 0 .. MaxChannels :
        SetOutputChannels(p, channels)
  \/ \E p \in DpPlanes, wav_file \in WavFiles : PreloadWavFile(p, wav_file)
  \/ \E p \in DpPlanes : DpStart(p)
  \/ \E p \in DpPlanes : DpStop(p)
  \/ \E p \in DpPlanes, out_null \in BOOLEAN, n_frames \in 0 .. MaxFrames :
        ProcessAudio(p, out_null, n_frames)

\* The data plane fed with mono sources only.
NextDpMono ==
  \/ \E p \in DpPlanes, channels \in 0 .. MaxChannels :
        SetOutputChannels(p, channels)
  \/ \E p \in DpPlanes, wav_file \in {w \in WavFiles : w.channels = 1} :
        PreloadWavFile(p, wav_file)
  \/ \E p \in DpPlanes : DpStart(p)
  \/ \E p \in DpPlanes : DpStop(p)
  \/ \E p \in DpPlanes, out_null \in BOOLEAN, n_frames \in 0 .. MaxFrames :
        ProcessAudio(p, out_null, n_frames)

NextTrk ==
  \/ \E device \in AudioDevices \cup {NoDevice} : SetOutputDevice(device)
  \/ \E dp \in Planes : RegisterDataplane(dp)
  \/ Start
  \/ Stop
  \/ Play
  \/ TrackStop

\* The MainTrack with its audio controller; no MIDI port is opened.
NextMain ==
  \/ \E device \in AudioDevices \cup {NoDevice} : SetOutputDevice(device)
  \/ \E dp \in Planes : RegisterDataplane(dp)
  \/ MainTrackStart
  \/ MainTrackStop

NextCtl ==
  \/ \E device \in AudioDevices \cup {NoDevice} : SetOutputDevice(device)
  \/ \E dp \in Planes : RegisterDataplane(dp)
  \/ Start
  \/ Stop

\* --------------------------------------------------- TrackAudioDataPlane
\* #define BUFFER_FRAMES: the ring's Size
BUFFER_FRAMES == RingSize

StreamWavFiles ==
  [channels : 1 .. MaxStreamChannels, total_frames : 0 .. MaxFileFrames]

\* The caller's output buffer before the call.
StreamOut == [k \in 1 .. (MaxStreamFrames * MaxStreamChannels) |-> Uninit]

\* Everything but the streaming data plane, its ring's slots and indices,
\* and call.
notStream == <<p_pc, p_item, p_current_write, p_next_write, p_ret,
               c_pc, c_current_read, c_seen, c_item, c_ret, pushed, popped,
               ctlVars, m_output_channels, dpVars, trkVars, midiVars,
               treeVars, sizeVars, moreVars>>

StreamInit ==
  /\ tadp = [m_input_channels |-> 0, m_output_channels |-> 0,
             m_stop_command |-> FALSE, underrun_count |-> 0,
             total_frames_read |-> 0, total_batches |-> 0,
             overrun_count |-> 0]
  /\ rd = [pc |-> "none", samples |-> <<>>, channels |-> 0, pos |-> 0,
           read_buffer |-> <<>>, i |-> 0, batch_num |-> 0, callbacks |-> 0]

\* TrackAudioDataPlane::set_input_channels / set_output_channels, called
\* before any streaming
SetStreamChannels(input_channels, output_channels) ==
  /\ rd.pc = "none"
  /\ tadp.total_batches = 0
  /\ tadp' = [tadp EXCEPT !.m_input_channels = input_channels,
                          !.m_output_channels = output_channels]
  /\ call' = Called("set_channels", "void")
  /\ UNCHANGED <<rd, m_buffer, m_write_index, m_read_index>>
  /\ UNCHANGED notStream

\* Slip: the mono branch is left out.
ChannelMap_NoMono(input_samples, ci, co) ==
  [ch \in 1 .. co |-> IF ch <= ci THEN input_samples[ch] ELSE 0]

\* TrackAudioDataPlane::process_audio: channel mapping of one frame
ChannelMap(input_samples, ci, co) ==
  IF ci = 1 /\ co > 1
    THEN [ch \in 1 .. co |-> input_samples[1]]
    ELSE [ch \in 1 .. co |-> IF ch <= ci THEN input_samples[ch] ELSE 0]

\* TrackAudioDataPlane::process_audio: the try_pop loop of one frame, from
\* read index r with the samples got so far
RECURSIVE PopChannels(_, _, _)
PopChannels(r, got, ci) ==
  IF Len(got) = ci
    THEN [read |-> r, input_samples |-> got, buffer_underrun |-> FALSE]
  ELSE IF PopIsEmpty(r, m_write_index)
    THEN [read |-> r, input_samples |-> got, buffer_underrun |-> TRUE]
  ELSE PopChannels(NextIndex(r), Append(got, m_buffer[r]), ci)

\* Slip: an underrun frame is not counted.
UnderrunsAfter_NotCounted(count, buffer_underrun) == count

\* TrackAudioDataPlane::process_audio: underrun_count++ on an underrun frame
UnderrunsAfter(count, buffer_underrun) ==
  IF buffer_underrun THEN count + 1 ELSE count

\* TrackAudioDataPlane::process_audio: the loop over frames i .. n_frames - 1
RECURSIVE StreamFrames(_, _, _)
StreamFrames(S, i, n_frames) ==
  IF i = n_frames THEN S
  ELSE LET f == PopChannels(S.read, <<>>, tadp.m_input_channels)
           co == tadp.m_output_channels
           frame_out == IF f.buffer_underrun
                          THEN [ch \in 1 .. co |-> 0]
                          ELSE ChannelMap(f.input_samples,
                                          tadp.m_input_channels, co)
       IN StreamFrames(
            [read |-> f.read, out |-> S.out \o frame_out,
             underrun_count |-> UnderrunsAfter(S.underrun_count,
                                               f.buffer_underrun)],
            i + 1, n_frames)

\* TrackAudioDataPlane::process_audio with a non-null output buffer; the
\* try_pop calls of one callback are taken together
StreamProcessAudio(n_frames) ==
  /\ tadp.total_batches < MaxBatches
  /\ IF tadp.m_stop_command
       THEN /\ call' = CalledWith("stream_process_audio", "stopped", None,
                         n_frames,
                         ZeroFill(StreamOut, n_frames * tadp.m_output_channels))
            /\ UNCHANGED <<tadp, m_read_index>>
       ELSE LET S == StreamFrames([read |-> m_read_index, out |-> <<>>,
                                   underrun_count |-> tadp.underrun_count],
                                  0, n_frames)
            IN /\ m_read_index' = S.read
               /\ tadp' = [tadp EXCEPT
                    !.underrun_count = S.underrun_count,
                    !.total_frames_read = tadp.total_frames_read + n_frames,
                    !.total_batches = tadp.total_batches + 1]
               /\ call' = CalledWith("stream_process_audio", "void", None,
                            n_frames, WriteTo(StreamOut, S.out))
  /\ UNCHANGED <<rd, m_buffer, m_write_index>>
  /\ UNCHANGED notStream

\* TrackAudioDataPlane::read_wav_file, the first call (no reader thread to
\* join): starts the reader thread
ReadWavFile(wav_file) ==
  /\ rd.pc = "none"
  /\ rd' = [rd EXCEPT !.pc = "loop", !.samples = WavSamples(wav_file),
                      !.channels = wav_file.channels]
  /\ call' = Called("read_wav_file", "void")
  /\ UNCHANGED <<tadp, m_buffer, m_write_index, m_read_index>>
  /\ UNCHANGED notStream

\* The reader thread: the loop test, read_frames and the end of file; at
\* the end the completion callback is called
ReaderLoop ==
  /\ rd.pc = "loop"
  /\ LET frames_per_read == BUFFER_FRAMES \div rd.channels
         left == (Len(rd.samples) - rd.pos) \div rd.channels
         frames_read == Min(frames_per_read, left)
     IN IF tadp.m_stop_command
          THEN /\ rd' = [rd EXCEPT !.pc = "done",
                                   !.callbacks = rd.callbacks + 1]
               /\ UNCHANGED tadp
        ELSE IF frames_read <= 0
          THEN /\ tadp' = [tadp EXCEPT !.m_stop_command = TRUE]
               /\ rd' = [rd EXCEPT !.pc = "done",
                                   !.callbacks = rd.callbacks + 1]
        ELSE /\ rd' = [rd EXCEPT
                  !.pc = "push",
                  !.read_buffer = SubSeq(rd.samples, rd.pos + 1,
                                         rd.pos + frames_read * rd.channels),
                  !.pos = rd.pos + frames_read * rd.channels,
                  !.i = 0]
             /\ UNCHANGED tadp
  /\ call' = Called("reader_loop", "void")
  /\ UNCHANGED <<m_buffer, m_write_index, m_read_index>>
  /\ UNCHANGED notStream

\* The reader thread: overrun_count after a rejected try_push of sample i
OverrunsAfter(count, i, frames_read) ==
  IF i = 0 THEN count + frames_read ELSE count

\* The reader thread: try_push of read_buffer[i], then the next sample or
\* the next batch
ReaderPush ==
  /\ rd.pc = "push"
  /\ LET full == PushIsFull(NextIndex(m_write_index), m_read_index)
         last == rd.i + 1 = Len(rd.read_buffer)
     IN /\ IF full
             THEN /\ tadp' = [tadp EXCEPT !.overrun_count =
                       OverrunsAfter(tadp.overrun_count, rd.i,
                                     Len(rd.read_buffer) \div rd.channels)]
                  /\ UNCHANGED <<m_buffer, m_write_index>>
             ELSE /\ m_buffer' = [m_buffer EXCEPT ![m_write_index] =
                                    rd.read_buffer[rd.i + 1]]
                  /\ m_write_index' = NextIndex(m_write_index)
                  /\ UNCHANGED tadp
        /\ rd' = [rd EXCEPT !.i = rd.i + 1,
                            !.pc = IF last THEN "loop" ELSE "push",
                            !.batch_num = IF last THEN rd.batch_num + 1
                                                  ELSE rd.batch_num]
        /\ call' = CalledOn("reader_push", IF full THEN RetFalse ELSE RetTrue,
                            rd.i, 0)
  /\ UNCHANGED m_read_index
  /\ UNCHANGED notStream

\* One reader thread feeds the ring while process_audio consumes it.
NextStream ==
  \/ \E ci \in 0 .. MaxStreamChannels, co \in 0 .. MaxStreamChannels :
        SetStreamChannels(ci, co)
  \/ \E n_frames \in 0 .. MaxStreamFrames : StreamProcessAudio(n_frames)
  \/ \E wav_file \in StreamWavFiles : ReadWavFile(wav_file)
  \/ ReaderLoop
  \/ ReaderPush

\* ----------------------------------------------------- Track: inputs
\* std::nullopt
NullOpt == [kind |-> "nullopt"]

\* AudioIOVariant: an AudioDevice by its channel counts, a WavFilePtr by its
\* channels, or std::nullopt
AudioInputs ==
  [kind : {"device"}, input_channels : 0 .. MaxChannels,
   output_channels : 0 .. MaxChannels]
  \cup [kind : {"file"}, channels : 1 .. MaxChannels]
  \cup {NullOpt}

\* Everything but the track's inputs, and call.
notIo == <<ringVars, ctlVars, m_output_channels, dpVars, trkVars, midiVars,
           treeVars, sizeVars, streamVars, dbVars, bpVars>>

IoInit == m_audio_input = NullOpt

\* Track::has_audio_input
HasAudioInput == m_audio_input.kind # "nullopt"

\* Slip: the input channel test is left out.
AddAudioInputRefused_OnlyBound(input) == HasAudioInput

\* Track::add_audio_input: the two tests that throw
AddAudioInputRefused(input) ==
  \/ HasAudioInput
  \/ (input.kind = "device" /\ input.input_channels < 1)

\* Track::add_audio_input
AddAudioInput(input) ==
  /\ IF AddAudioInputRefused(input)
       THEN /\ call' = CalledOn("add_audio_input", "throws", input, 0)
            /\ UNCHANGED m_audio_input
       ELSE /\ m_audio_input' = input
            /\ call' = CalledOn("add_audio_input", "void", input, 0)
  /\ UNCHANGED notIo

\* Track::remove_audio_input
RemoveAudioInput ==
  /\ m_audio_input' = NullOpt
  /\ call' = Called("remove_audio_input", "void")
  /\ UNCHANGED notIo

NextIo ==
  \/ \E input \in AudioInputs : AddAudioInput(input)
  \/ RemoveAudioInput

\* ----------------------------------------------------------- DoubleBuffer
\* Everything but the DoubleBuffer and its threads, and call.
notDb == <<ringVars, ctlVars, m_output_channels, dpVars, trkVars, midiVars,
           treeVars, sizeVars, streamVars, ioVars, bpVars>>

\* DoubleBuffer(capacity): both vectors value-initialised, read -> a,
\* write -> b; published is the history of what the last publish() handed
\* over
DbInit ==
  /\ db = [m_buffer |-> [a |-> 0, b |-> 0], m_read_buffer |-> "a",
           m_write_buffer |-> "b", m_read_ready |-> FALSE, published |-> 0]
  /\ dbp = [pc |-> "idle", buf |-> "none", current_write |-> "none",
            current_read |-> "none", writes |-> 0]
  /\ dbc = [pc |-> "idle", buf |-> "none", ready |-> FALSE]

\* Producer: get_write_buffer(), the reference is kept for the writes
DbGetWriteBuffer ==
  /\ dbp.pc = "idle"
  /\ dbp.writes < MaxCycles
  /\ dbp' = [dbp EXCEPT !.pc = "writing", !.buf = db.m_write_buffer]
  /\ call' = CalledOn("get_write_buffer", db.m_write_buffer, "producer", 0)
  /\ UNCHANGED <<db, dbc>>
  /\ UNCHANGED notDb

\* Producer: fills the vector it holds; the k-th fill writes k
DbWrite ==
  /\ dbp.pc = "writing"
  /\ db.m_buffer[dbp.buf] # dbp.writes + 1
  /\ db' = [db EXCEPT !.m_buffer[dbp.buf] = dbp.writes + 1]
  /\ call' = CalledOn("write", "void", "producer", 0)
  /\ UNCHANGED <<dbp, dbc>>
  /\ UNCHANGED notDb

\* Slip: publish() leaves the read pointer where it was.
ReadBufferAfterExchange_NoSwap(current_write) == db.m_read_buffer

\* publish(): m_read_buffer.exchange(current_write)
ReadBufferAfterExchange(current_write) == current_write

\* Producer: publish(), one atomic operation per step
DbPublish ==
  /\ \/ /\ dbp.pc = "writing"
        /\ dbp' = [dbp EXCEPT !.pc = "exchange",
                              !.current_write = db.m_write_buffer]
        /\ UNCHANGED db
     \/ /\ dbp.pc = "exchange"
        /\ dbp' = [dbp EXCEPT !.pc = "store_write",
                              !.current_read = db.m_read_buffer]
        /\ db' = [db EXCEPT !.m_read_buffer =
                              ReadBufferAfterExchange(dbp.current_write)]
     \/ /\ dbp.pc = "store_write"
        /\ dbp' = [dbp EXCEPT !.pc = "store_ready"]
        /\ db' = [db EXCEPT !.m_write_buffer = dbp.current_read]
     \/ /\ dbp.pc = "store_ready"
        /\ dbp' = [dbp EXCEPT !.pc = "idle", !.buf = "none",
                              !.current_write = "none",
                              !.current_read = "none",
                              !.writes = dbp.writes + 1]
        /\ db' = [db EXCEPT !.m_read_ready = TRUE,
                            !.published = db.m_buffer[dbp.buf]]
  /\ call' = CalledOn("publish", IF dbp.pc = "store_ready" THEN "void"
                                                          ELSE "running",
                      "producer", 0)
  /\ UNCHANGED dbc
  /\ UNCHANGED notDb

\* Consumer: is_read_ready()
DbIsReadReady ==
  /\ dbc.pc = "idle"
  /\ dbc' = [dbc EXCEPT !.ready = db.m_read_ready]
  /\ call' = CalledOn("is_read_ready", db.m_read_ready, "consumer", 0)
  /\ UNCHANGED <<db, dbp>>
  /\ UNCHANGED notDb

\* Consumer: get_read_buffer(), one atomic operation per step; the
\* reference is kept for the reads
DbGetReadBuffer ==
  /\ \/ /\ dbc.pc = "idle"
        /\ dbc' = [dbc EXCEPT !.pc = "load_read"]
        /\ db' = [db EXCEPT !.m_read_ready = FALSE]
        /\ call' = CalledOn("get_read_buffer", "running", "consumer", 0)
     \/ /\ dbc.pc = "load_read"
        /\ dbc' = [dbc EXCEPT !.pc = "reading", !.buf = db.m_read_buffer]
        /\ UNCHANGED db
        /\ call' = CalledOn("get_read_buffer", db.m_read_buffer, "consumer", 0)
  /\ UNCHANGED dbp
  /\ UNCHANGED notDb

\* Consumer: done with the vector it holds
DbReadEnd ==
  /\ dbc.pc = "reading"
  /\ dbc' = [dbc EXCEPT !.pc = "idle", !.buf = "none", !.ready = FALSE]
  /\ call' = CalledOn("read_end", "void", "consumer", 0)
  /\ UNCHANGED <<db, dbp>>
  /\ UNCHANGED notDb

\* One producer thread and one consumer thread.
NextDb ==
  \/ DbGetWriteBuffer
  \/ DbWrite
  \/ DbPublish
  \/ DbIsReadReady
  \/ DbGetReadBuffer
  \/ DbReadEnd

\* Neither thread is inside a DoubleBuffer call.
BetweenCalls(pc) == pc \in {"idle", "writing", "reading"}

\* Single-threaded use: a call runs to its end before the next call begins.
NextDbSeq ==
  \/ BetweenCalls(dbc.pc) /\ DbGetWriteBuffer
  \/ BetweenCalls(dbc.pc) /\ DbWrite
  \/ BetweenCalls(dbc.pc) /\ DbPublish
  \/ BetweenCalls(dbp.pc) /\ DbIsReadReady
  \/ BetweenCalls(dbp.pc) /\ DbGetReadBuffer
  \/ BetweenCalls(dbp.pc) /\ DbReadEnd

\* ---------------------------------------------------- AudioBatchProducer
\* Everything but the producer, the main thread, the ring they share, and
\* call.
notBp == <<p_pc, p_item, p_current_write, p_next_write, p_ret,
           c_pc, c_current_read, c_seen, c_item, c_ret, pushed, popped,
           ctlVars, m_output_channels, dpVars, trkVars, midiVars,
           treeVars, sizeVars, streamVars, ioVars, dbVars>>

\* Before the test constructs anything
BpInit ==
  /\ bp = [pc |-> "none", sample_data |-> <<>>, batch_size |-> 0,
           m_is_running |-> FALSE, m_done_producing |-> FALSE,
           i |-> 0, j |-> 0, current_batch_size |-> 0, batch_num |-> 0,
           callbacks |-> 0]
  /\ bc = [pc |-> "new", consumed_data |-> <<>>]

\* Main thread: sample_data[i] = i, the producer constructed on it, the
\* completion callback set
BpConstruct(num_samples, batch_size) ==
  /\ bc.pc = "new"
  /\ bp' = [bp EXCEPT !.sample_data = [k \in 1 .. num_samples |-> k - 1],
                      !.batch_size = batch_size]
  /\ bc' = [bc EXCEPT !.pc = "start"]
  /\ call' = Called("AudioBatchProducer", "void")
  /\ UNCHANGED <<m_buffer, m_write_index, m_read_index>>
  /\ UNCHANGED notBp

\* Main thread: start()
BpStart ==
  /\ bc.pc = "start"
  /\ bp' = IF bp.m_is_running
             THEN bp
             ELSE [bp EXCEPT !.m_is_running = TRUE,
                             !.m_done_producing = FALSE,
                             !.pc = "loop", !.i = 0, !.batch_num = 0]
  /\ bc' = [bc EXCEPT !.pc = "check_done"]
  /\ call' = Called("start", "void")
  /\ UNCHANGED <<m_buffer, m_write_index, m_read_index>>
  /\ UNCHANGED notBp

\* Producer thread, run(): the for condition and the batch's size
BpLoop ==
  /\ bp.pc = "loop"
  /\ bp' = IF bp.i < Len(bp.sample_data) /\ bp.m_is_running
             THEN [bp EXCEPT !.pc = "push", !.j = 0,
                             !.current_batch_size =
                               Min(bp.batch_size, Len(bp.sample_data) - bp.i)]
             ELSE [bp EXCEPT !.pc = "done"]
  /\ call' = Called("run_loop", "void")
  /\ UNCHANGED <<bc, m_buffer, m_write_index, m_read_index>>
  /\ UNCHANGED notBp

\* Slip: a rejected sample is given up at once.
PushRetries_Never(accepted, is_running) == FALSE

\* run(): while (!try_push(sample) && m_is_running.load()) yield
PushRetries(accepted, is_running) == ~accepted /\ is_running

\* run(): on to the next sample; after the batch's last sample the loop's
\* increment
NextSample(p) ==
  LET last == p.j + 1 = p.current_batch_size
  IN [p EXCEPT !.j = p.j + 1,
               !.pc = IF last THEN "loop" ELSE "push",
               !.i = IF last THEN p.i + p.batch_size ELSE p.i,
               !.batch_num = IF last THEN p.batch_num + 1 ELSE p.batch_num]

\* Producer thread, run(): one try_push of sample_data[i + j], and after a
\* rejected one the load of m_is_running that decides between another try
\* and the next sample
BpPush ==
  /\ \/ /\ bp.pc = "push"
        /\ LET accepted == ~PushIsFull(NextIndex(m_write_index), m_read_index)
           IN /\ IF accepted
                   THEN /\ m_buffer' = [m_buffer EXCEPT ![m_write_index] =
                                          bp.sample_data[bp.i + bp.j + 1]]
                        /\ m_write_index' = NextIndex(m_write_index)
                        /\ bp' = NextSample(bp)
                   ELSE /\ UNCHANGED <<m_buffer, m_write_index>>
                        /\ bp' = [bp EXCEPT !.pc = "rejected"]
              /\ call' = Called("run_push",
                                IF accepted THEN RetTrue ELSE RetFalse)
     \/ /\ bp.pc = "rejected"
        /\ bp' = IF PushRetries(FALSE, bp.m_is_running)
                   THEN [bp EXCEPT !.pc = "push"]
                   ELSE NextSample(bp)
        /\ call' = Called("run_push", "yield")
        /\ UNCHANGED <<m_buffer, m_write_index>>
  /\ UNCHANGED <<bc, m_read_index>>
  /\ UNCHANGED notBp

\* Producer thread, run(): m_done_producing.store(true), the completion
\* callback, m_is_running.store(false)
BpFinish ==
  /\ \/ /\ bp.pc = "done"
        /\ bp' = [bp EXCEPT !.pc = "callback", !.m_done_producing = TRUE]
     \/ /\ bp.pc = "callback"
        /\ bp' = [bp EXCEPT !.pc = "finish", !.callbacks = bp.callbacks + 1]
     \/ /\ bp.pc = "finish"
        /\ bp' = [bp EXCEPT !.pc = "finished", !.m_is_running = FALSE]
  /\ call' = Called("run_finish", "void")
  /\ UNCHANGED <<bc, m_buffer, m_write_index, m_read_index>>
  /\ UNCHANGED notBp

\* Main thread: while (!producer.is_done() || ring_buffer.size() > 0)
BcCheck ==
  /\ \/ /\ bc.pc = "check_done"
        /\ bc' = [bc EXCEPT !.pc = IF bp.m_done_producing THEN "check_size"
                                                            ELSE "pop"]
     \/ /\ bc.pc = "check_size"
        /\ bc' = [bc EXCEPT !.pc = IF SizeOf(m_write_index, m_read_index) > 0
                                     THEN "pop" ELSE "stop"]
  /\ call' = Called("consume_check", "void")
  /\ UNCHANGED <<bp, m_buffer, m_write_index, m_read_index>>
  /\ UNCHANGED notBp

\* Main thread: try_pop, the sample appended to consumed_data
BcPop ==
  /\ bc.pc = "pop"
  /\ IF PopIsEmpty(m_read_index, m_write_index)
       THEN /\ bc' = [bc EXCEPT !.pc = "check_done"]
            /\ UNCHANGED m_read_index
       ELSE /\ bc' = [bc EXCEPT !.pc = "check_done",
                                !.consumed_data =
                                  Append(@, m_buffer[m_read_index])]
            /\ m_read_index' = NextIndex(m_read_index)
  /\ call' = Called("consume_pop", "void")
  /\ UNCHANGED <<bp, m_buffer, m_write_index>>
  /\ UNCHANGED notBp

\* stop() called by the main thread at `at`; it joins the producer thread
BpStopAt(at) ==
  /\ \/ /\ bc.pc = at
        /\ IF bp.m_is_running
             THEN /\ bp' = [bp EXCEPT !.m_is_running = FALSE]
                  /\ bc' = [bc EXCEPT !.pc = "join"]
             ELSE /\ bc' = [bc EXCEPT !.pc = "stopped"]
                  /\ UNCHANGED bp
     \/ /\ bc.pc = "join"
        /\ bp.pc = "finished"
        /\ bc' = [bc EXCEPT !.pc = "stopped"]
        /\ UNCHANGED bp
  /\ call' = Called("stop", "void")
  /\ UNCHANGED <<m_buffer, m_write_index, m_read_index>>
  /\ UNCHANGED notBp

\* Main thread: stop() after its consuming loop
BpStop == BpStopAt("stop")

\* Main thread: stop() while the producer may still be pushing
BpStopEarly == BpStopAt("check_done")

\* The test: construct, start, consume until done and empty, stop.
NextBp ==
  \/ \E num_samples \in 0 .. MaxSamples, batch_size \in 1 .. MaxBatchSize :
        BpConstruct(num_samples, batch_size)
  \/ BpStart
  \/ BpLoop
  \/ BpPush
  \/ BpFinish
  \/ BcCheck
  \/ BcPop
  \/ BpStop

\* The same, with stop() also called before production is done.
NextBpStop ==
  \/ NextBp
  \/ BpStopEarly

\* ------------------------------------------------------------------ MIDI
\* The MIDI data planes of the engine.
MidiPlanes == {"m1", "m2"}

\* Byte values the raw messages are built from: 0x3C, 0x64 and 0x92 (Note On
\* on channel 2).
MidiBytes == {60, 100, 146}

\* eMidiMessageType
NoteOff == 128
NoteOn == 144
ControlChange == 176

RECURSIVE SeqsUpTo(_, _)
SeqsUpTo(S, n) ==
  IF n = 0 THEN {<<>>}
  ELSE LET shorter == SeqsUpTo(S, n - 1)
       IN shorter \cup {Append(m, b) : m \in shorter, b \in S}

\* std::vector<unsigned char> of at most MaxMessageSize sampled bytes
RawMessages == SeqsUpTo(MidiBytes, MaxMessageSize)

\* unsigned char a & b
RECURSIVE BitAnd(_, _)
BitAnd(a, b) ==
  IF a = 0 \/ b = 0 THEN 0
  ELSE (a % 2) * (b % 2) + 2 * BitAnd(a \div 2, b \div 2)

\* The MidiMessage local of a callback that has decoded nothing.
NoMessage == [status |-> 0, type |-> 0, channel |-> 0, data1 |-> 0, data2 |-> 0]

\* Slip: data2 is taken as soon as a second byte is present.
MidiDecode_Data2Guard(message) ==
  [status  |-> message[1],
   type    |-> BitAnd(message[1], 240),
   channel |-> BitAnd(message[1], 15),
   data1   |-> IF Len(message) > 1 THEN message[2] ELSE 0,
   data2   |-> IF Len(message) > 1 THEN message[Len(message)] ELSE 0]

\* midi_callback: the fields parsed from a non-empty message (deltatime and
\* type_name are left out)
MidiDecode(message) ==
  [status  |-> message[1],
   type    |-> BitAnd(message[1], 240),
   channel |-> BitAnd(message[1], 15),
   data1   |-> IF Len(message) > 1 THEN message[2] ELSE 0,
   data2   |-> IF Len(message) > 2 THEN message[3] ELSE 0]

MidiInit ==
  /\ midi_data_planes = <<>>
  /\ midi_active_tracks = <<>>
  /\ midi_port_open = FALSE
  /\ midi_stop_command = [p \in MidiPlanes |-> TRUE]
  /\ m_midi_input_stats = [p \in MidiPlanes |-> 0]
  /\ cb_message = <<>>
  /\ midi_message = NoMessage
  /\ cb_next = 0
  /\ midi_callbacks = 0
  /\ midi_deliveries = <<>>
  /\ user_callbacks = <<>>

\* IController::register_dataplane on the MIDI controller
MidiRegisterDataplane(dp) ==
  /\ Len(midi_data_planes) < MaxRegistered
  /\ midi_data_planes' = Append(midi_data_planes, dp)
  /\ call' = CalledOn("midi_register_dataplane", "void", dp, 0)
  /\ UNCHANGED <<midi_active_tracks, midi_port_open, midi_stop_command,
                 m_midi_input_stats, cb_message, midi_message, cb_next,
                 midi_callbacks, midi_deliveries, user_callbacks>>
  /\ UNCHANGED notMidi

\* MidiPortController::open_input_port: the active list it builds
IsMidiPlane(dp) == dp \in MidiPlanes
MidiActiveOf(dataplanes) == SelectSeq(dataplanes, IsMidiPlane)

\* IController::clear_registered_dataplane on the MIDI port controller
MidiClearRegisteredDataplane ==
  /\ midi_data_planes' = <<>>
  /\ call' = Called("midi_clear_registered_dataplane", "void")
  /\ UNCHANGED <<midi_active_tracks, midi_port_open, midi_stop_command,
                 m_midi_input_stats, cb_message, midi_message, cb_next,
                 midi_callbacks, midi_deliveries, user_callbacks>>
  /\ UNCHANGED notMidi

\* Slip: an open port is left open.
PortAfterClose_Kept(is_port_open) == is_port_open

\* open_input_port: isPortOpen() after "if (isPortOpen()) close_input_port()"
PortAfterClose(is_port_open) == FALSE

\* MidiPortController::open_input_port, called while no callback is in flight
OpenInputPort(port_in_range) ==
  /\ cb_next = 0
  /\ UNCHANGED <<midi_data_planes, midi_stop_command, m_midi_input_stats,
                 cb_message, midi_message, cb_next, midi_callbacks,
                 midi_deliveries, user_callbacks>>
  /\ UNCHANGED notMidi
  /\ IF ~port_in_range
       THEN /\ call' = Called("open_input_port", "throws")
            /\ UNCHANGED <<midi_active_tracks, midi_port_open>>
       ELSE
         /\ midi_active_tracks' = MidiActiveOf(midi_data_planes)
         /\ IF MidiActiveOf(midi_data_planes) = <<>>
              THEN \* an open port was closed; nothing to listen for
                   /\ midi_port_open' = PortAfterClose(midi_port_open)
                   /\ call' = Called("open_input_port", "none_active")
              ELSE
                \/ \* openPort fails
                   /\ midi_port_open' = PortAfterClose(midi_port_open)
                   /\ call' = Called("open_input_port", "failed")
                \/ \* openPort succeeds
                   /\ midi_port_open' = TRUE
                   /\ call' = Called("open_input_port", "void")

\* MidiPortController::close_input_port, called while no callback is in
\* flight
CloseInputPort ==
  /\ cb_next = 0
  /\ midi_port_open' = FALSE
  /\ call' = Called("close_input_port", "void")
  /\ UNCHANGED <<midi_data_planes, midi_active_tracks, midi_stop_command,
                 m_midi_input_stats, cb_message, midi_message, cb_next,
                 midi_callbacks, midi_deliveries, user_callbacks>>
  /\ UNCHANGED notMidi

\* IDataPlane::start on a MIDI data plane
MidiDpStart(p) ==
  /\ midi_stop_command' = [midi_stop_command EXCEPT ![p] = FALSE]
  /\ call' = CalledOn("midi_dp_start", "void", p, 0)
  /\ UNCHANGED <<midi_data_planes, midi_active_tracks, midi_port_open,
                 m_midi_input_stats, cb_message, midi_message, cb_next,
                 midi_callbacks, midi_deliveries, user_callbacks>>
  /\ UNCHANGED notMidi

\* IDataPlane::stop on a MIDI data plane
MidiDpStop(p) ==
  /\ midi_stop_command' = [midi_stop_command EXCEPT ![p] = TRUE]
  /\ call' = CalledOn("midi_dp_stop", "void", p, 0)
  /\ UNCHANGED <<midi_data_planes, midi_active_tracks, midi_port_open,
                 m_midi_input_stats, cb_message, midi_message, cb_next,
                 midi_callbacks, midi_deliveries, user_callbacks>>
  /\ UNCHANGED notMidi

\* MidiCallbackHandler::midi_callback up to its loop over active_tracks:
\* RtMidi invokes it on its one MIDI thread while the port is open.
\* message->at(0) throws std::out_of_range on an empty message, which the
\* catch clause logs.
MidiCallback(args_null, message) ==
  /\ midi_port_open
  /\ cb_next = 0
  /\ midi_callbacks < MaxCallbacks
  /\ UNCHANGED <<midi_data_planes, midi_active_tracks, midi_port_open,
                 midi_stop_command, m_midi_input_stats, midi_deliveries,
                 user_callbacks>>
  /\ UNCHANGED notMidi
  /\ IF args_null
       THEN /\ call' = Called("midi_callback", "null")
            /\ UNCHANGED <<cb_message, midi_message, cb_next, midi_callbacks>>
       ELSE IF message = <<>>
       THEN /\ call' = Called("midi_callback", "caught")
            /\ cb_message' = message
            /\ midi_message' = NoMessage
            /\ UNCHANGED <<cb_next, midi_callbacks>>
       ELSE /\ call' = Called("midi_callback", "void")
            /\ cb_message' = message
            /\ midi_message' = MidiDecode(message)
            /\ midi_callbacks' = midi_callbacks + 1
            /\ cb_next' = IF midi_active_tracks = <<>> THEN 0 ELSE 1

\* Slip: the stop command is not consulted.
MidiStatsAfterProcess_Always(p) == m_midi_input_stats[p] + 1

\* MidiDataPlane::process_midi_message / update_midi_input_statistics:
\* total_messages_processed after the call
MidiStatsAfterProcess(p) ==
  IF midi_stop_command[p]
    THEN m_midi_input_stats[p]
    ELSE m_midi_input_stats[p] + 1

\* Slip: the loop serves the same track again.
NextToServe_Stuck(i, n) == IF i < n THEN i ELSE 0

\* midi_callback: the for loop over context->active_tracks
NextToServe(i, n) == IF i < n THEN i + 1 ELSE 0

\* One iteration of the callback's loop: process_midi_message on the next
\* active track.
MidiDeliver ==
  /\ cb_next > 0
  /\ LET p == midi_active_tracks[cb_next] IN
       /\ m_midi_input_stats' =
            [m_midi_input_stats EXCEPT ![p] = MidiStatsAfterProcess(p)]
       /\ midi_deliveries' = Append(midi_deliveries, <<midi_callbacks, p>>)
       /\ call' = CalledOn("process_midi_message", "void", p, 0)
  /\ cb_next' = NextToServe(cb_next, Len(midi_active_tracks))
  /\ UNCHANGED <<midi_data_planes, midi_active_tracks, midi_port_open,
                 midi_stop_command, cb_message, midi_message, midi_callbacks,
                 user_callbacks>>
  /\ UNCHANGED notMidi

\* Track::handle_midi_message, called once on a track with its three user
\* callbacks registered: the callback it invokes with the message narrowed
\* to a note or control view.
HandleMidiMessage(message) ==
  /\ user_callbacks = <<>>
  /\ user_callbacks' =
       IF message.type = NoteOn
         THEN Append(user_callbacks,
                     [callback |-> "note_on", channel |-> message.channel,
                      number |-> message.data1, value |-> message.data2])
       ELSE IF message.type = NoteOff
         THEN Append(user_callbacks,
                     [callback |-> "note_off", channel |-> message.channel,
                      number |-> message.data1, value |-> message.data2])
       ELSE IF message.type = ControlChange
         THEN Append(user_callbacks,
                     [callback |-> "control_change", channel |-> message.channel,
                      number |-> message.data1, value |-> message.data2])
       ELSE user_callbacks
  /\ call' = Called("handle_midi_message", "void")
  /\ UNCHANGED <<midi_data_planes, midi_active_tracks, midi_port_open,
                 midi_stop_command, m_midi_input_stats, cb_message,
                 midi_message, cb_next, midi_callbacks, midi_deliveries>>
  /\ UNCHANGED notMidi

\* The raw messages fed to the callback when the tracks are under study:
\* an empty one, Note On (channel 2, note 60, velocity 100) and a two-byte
\* Control Change.
TestMessages == {<<>>, <<146, 60, 100>>, <<185, 60>>}

NextMidi ==
  \/ \E dp \in MidiPlanes \cup {"a1"} : MidiRegisterDataplane(dp)
  \/ \E port_in_range \in BOOLEAN : OpenInputPort(port_in_range)
  \/ CloseInputPort
  \/ \E p \in MidiPlanes : MidiDpStart(p)
  \/ \E p \in MidiPlanes : MidiDpStop(p)
  \/ \E args_null \in BOOLEAN, message \in TestMessages :
       MidiCallback(args_null, message)
  \/ MidiDeliver

\* The MIDI port controller's registrations and port.
NextMidiPort ==
  \/ \E dp \in MidiPlanes \cup {"a1"} : MidiRegisterDataplane(dp)
  \/ MidiClearRegisteredDataplane
  \/ \E port_in_range \in BOOLEAN : OpenInputPort(port_in_range)
  \/ CloseInputPort
  \/ \E p \in MidiPlanes : MidiDpStart(p)
  \/ \E p \in MidiPlanes : MidiDpStop(p)

NextMidiDecode ==
  \/ \E dp \in {"m1"} : MidiRegisterDataplane(dp)
  \/ OpenInputPort(TRUE)
  \/ \E message \in RawMessages : MidiCallback(FALSE, message)
  \/ MidiDeliver
  \/ HandleMidiMessage(MidiDecode(<<146, 60, 100>>))

\* ------------------------------------------------- Track / TrackManager
\* TrackManager::m_main_track
MainTrack == 0
\* TrackPtr == nullptr
NullTrack == -1

AllTracks == 0 .. MaxTracks

\* The tracks that exist.
Created == 0 .. n_tracks

\* Track::is_main_track
IsMainTrack(t) == t = MainTrack

\* TrackManager::TrackManager: the MainTrack alone, no parent, no children
TreeInit ==
  /\ n_tracks = 0
  /\ m_parent = [t \in AllTracks |-> NullTrack]
  /\ m_children = [t \in AllTracks |-> <<>>]

\* The proper ancestors of t, following at most n parent links.
RECURSIVE AncestorsWithin(_, _)
AncestorsWithin(t, n) ==
  IF n = 0 \/ m_parent[t] = NullTrack
    THEN {}
    ELSE {m_parent[t]} \cup AncestorsWithin(m_parent[t], n - 1)

Ancestors(t) == AncestorsWithin(t, MaxTracks + 1)

\* Slip: the ancestor test is left out.
AddChildAllowed_NoCycleTest(p, c) ==
  /\ c # NullTrack
  /\ m_parent[c] = NullTrack
  /\ c # p

\* Track::add_child_track: child must have no parent, must not be self,
\* must not be an ancestor
AddChildAllowed(p, c) ==
  /\ c # NullTrack
  /\ m_parent[c] = NullTrack
  /\ c # p
  /\ c \notin Ancestors(p)

\* Track::add_child_track: the tree after a successful attach
ParentAfterAdd(p, c) == [m_parent EXCEPT ![c] = p]
ChildrenAfterAdd(p, c) == [m_children EXCEPT ![p] = Append(@, c)]

\* Track::remove_child_track: clears child's parent; nothing happens if the
\* child is not present
ParentAfterRemove(p, c) ==
  IF c \in Range(m_children[p]) THEN [m_parent EXCEPT ![c] = NullTrack]
                                ELSE m_parent
ChildrenAfterRemove(p, c) ==
  LET Other(x) == x # c
  IN [m_children EXCEPT ![p] = SelectSeq(@, Other)]

\* Track::add_child_track called on track p
AddChildTrack(p, c) ==
  /\ IF AddChildAllowed(p, c)
       THEN /\ m_parent' = ParentAfterAdd(p, c)
            /\ m_children' = ChildrenAfterAdd(p, c)
            /\ call' = CalledOn("add_child_track", "void", <<p, c>>, 0)
       ELSE /\ call' = CalledOn("add_child_track", "throws", <<p, c>>, 0)
            /\ UNCHANGED <<m_parent, m_children>>
  /\ UNCHANGED n_tracks
  /\ UNCHANGED notTree

\* Track::remove_child_track called on track p
RemoveChildTrack(p, c) ==
  /\ m_parent' = ParentAfterRemove(p, c)
  /\ m_children' = ChildrenAfterRemove(p, c)
  /\ call' = CalledOn("remove_child_track", "void", <<p, c>>, 0)
  /\ UNCHANGED n_tracks
  /\ UNCHANGED notTree

\* Track::remove_from_parent: detaches from the parent; nothing happens if
\* already detached
ParentAfterDetach(t) ==
  IF m_parent[t] = NullTrack THEN m_parent
                             ELSE ParentAfterRemove(m_parent[t], t)
ChildrenAfterDetach(t) ==
  IF m_parent[t] = NullTrack THEN m_children
                             ELSE ChildrenAfterRemove(m_parent[t], t)

\* Track::remove_from_parent called on track t
RemoveFromParent(t) ==
  /\ m_parent' = ParentAfterDetach(t)
  /\ m_children' = ChildrenAfterDetach(t)
  /\ call' = CalledOn("remove_from_parent", "void", t, 0)
  /\ UNCHANGED n_tracks
  /\ UNCHANGED notTree

\* TrackManager::create_track: a new detached track
CreateTrack ==
  /\ n_tracks < MaxTracks
  /\ n_tracks' = n_tracks + 1
  /\ call' = CalledOn("create_track", n_tracks + 1, NullTrack, 0)
  /\ UNCHANGED <<m_parent, m_children>>
  /\ UNCHANGED notTree

\* Slip: any parent given is honoured.
ParentFor_AsGiven(parent) ==
  IF parent = NullTrack THEN MainTrack ELSE parent

\* TrackManager::create_child_track: the parent the new track is attached to
ParentFor(parent) ==
  IF parent = NullTrack \/ ~IsMainTrack(parent) THEN MainTrack ELSE parent

\* TrackManager::create_child_track, reached through the call op, which
\* returns ret; an exception of add_child_track is caught and logged
CreateChildTrackAs(op, ret, parent) ==
  /\ n_tracks < MaxTracks
  /\ n_tracks' = n_tracks + 1
  /\ IF AddChildAllowed(ParentFor(parent), n_tracks + 1)
       THEN /\ m_parent' = ParentAfterAdd(ParentFor(parent), n_tracks + 1)
            /\ m_children' = ChildrenAfterAdd(ParentFor(parent), n_tracks + 1)
       ELSE UNCHANGED <<m_parent, m_children>>
  /\ call' = CalledOn(op, ret, parent, 0)
  /\ UNCHANGED notTree

\* TrackManager::create_child_track: returns the new track
CreateChildTrack(parent) ==
  CreateChildTrackAs("create_child_track", n_tracks + 1, parent)

\* TrackManager::add_track: returns the new track's index among the
\* MainTrack's children
AddTrack ==
  CreateChildTrackAs("add_track", Len(m_children'[MainTrack]) - 1, MainTrack)

\* Slip: the MainTrack test is left out.
RemoveTrackRefused_Never(track) == FALSE

\* TrackManager::remove_track: throws for the MainTrack
RemoveTrackRefused(track) == IsMainTrack(track)

\* TrackManager::remove_track
RemoveTrack(track) ==
  /\ IF track = NullTrack
       THEN /\ call' = CalledOn("remove_track", "void", track, 0)
            /\ UNCHANGED <<m_parent, m_children>>
       ELSE IF RemoveTrackRefused(track)
       THEN /\ call' = CalledOn("remove_track", "throws", track, 0)
            /\ UNCHANGED <<m_parent, m_children>>
       ELSE /\ m_parent' = ParentAfterDetach(track)
            /\ m_children' = ChildrenAfterDetach(track)
            /\ call' = CalledOn("remove_track", "void", track, 0)
  /\ UNCHANGED n_tracks
  /\ UNCHANGED notTree

\* TrackManager::clear_tracks: remove_child_track on every child of the
\* MainTrack
ClearTracks ==
  /\ m_parent' = [t \in AllTracks |->
                    IF t \in Range(m_children[MainTrack]) THEN NullTrack
                                                          ELSE m_parent[t]]
  /\ m_children' = [m_children EXCEPT ![MainTrack] = <<>>]
  /\ call' = Called("clear_tracks", "void")
  /\ UNCHANGED n_tracks
  /\ UNCHANGED notTree

\* TrackManager::get_all_tracks
GetAllTracks == <<MainTrack>> \o m_children[MainTrack]

\* TrackManager::get_track_count
GetTrackCount == Len(GetAllTracks)

NextTree ==
  \/ CreateTrack
  \/ \E parent \in Created \cup {NullTrack} : CreateChildTrack(parent)
  \/ AddTrack
  \/ \E track \in Created \cup {NullTrack} : RemoveTrack(track)
  \/ ClearTracks
  \/ \E p \in Created, c \in Created : AddChildTrack(p, c)
  \/ \E p \in Created, c \in Created : RemoveChildTrack(p, c)
  \/ \E t \in Created : RemoveFromParent(t)

\* --------------------------------------------------------- specifications
InitAll == RingInit /\ CtlInit /\ ChanInit /\ DpInit /\ CallInit /\ TrkInit
           /\ MidiInit /\ TreeInit /\ SizeInit /\ StreamInit /\ IoInit
           /\ DbInit /\ BpInit

InitRing == InitAll

SpecRing == InitRing /\ [][NextRing]_vars

InitCtl == InitAll

SpecRingSize == InitAll /\ [][NextRingSize]_vars

SpecIo == InitAll /\ [][NextIo]_vars

SpecBp == InitAll /\ [][NextBp]_vars

SpecBpStop == InitAll /\ [][NextBpStop]_vars

SpecDb == InitAll /\ [][NextDb]_vars

SpecDbSeq == InitAll /\ [][NextDbSeq]_vars

\* The audio callback keeps being invoked and the reader thread keeps
\* running.
SpecStreamLive ==
  /\ InitAll
  /\ [][NextStream]_vars
  /\ WF_vars(\E n_frames \in 1 .. MaxStreamFrames :
                StreamProcessAudio(n_frames))
  /\ WF_vars(ReaderLoop)
  /\ WF_vars(ReaderPush)

SpecStream == InitAll /\ [][NextStream]_vars

SpecCtl == InitCtl /\ [][NextCtl]_vars

InitDp == InitAll

SpecDp == InitDp /\ [][NextDp]_vars

SpecDpMono == InitAll /\ [][NextDpMono]_vars

SpecMain == InitAll /\ [][NextMain]_vars

SpecTrk == InitAll /\ [][NextTrk]_vars

SpecMidi == InitAll /\ [][NextMidi]_vars

SpecTree == InitAll /\ [][NextTree]_vars

SpecMidiPort == InitAll /\ [][NextMidiPort]_vars

SpecMidiDecode == InitAll /\ [][NextMidiDecode]_vars

InitCb == InitAll

SpecCb == InitCb /\ [][NextCb]_vars

\* The files SpecMix preloads: the longest, with the device's channels.
MixWavFiles ==
  {w \in WavFiles : w.channels = MaxChannels /\ w.total_frames = MaxFileFrames}

\* The callback mixing tracks whose output buffers were filled by direct
\* process_audio calls: the tracks are registered and the stream started,
\* then each track is loaded, started and run.
NextMix ==
  \/ \E device \in CbDevices : p_device = NoDevice /\ SetOutputDevice(device)
  \/ \E dp \in AudioPlanes : m_stream_state # Playing /\ RegisterDataplane(dp)
  \/ Start
  \/ \E p \in AudioPlanes, wav_file \in MixWavFiles :
        /\ m_stream_state = Playing
        /\ m_preloaded_frames_buffer[p] = <<>>
        /\ PreloadWavFile(p, wav_file)
  \/ \E p \in AudioPlanes :
        /\ m_preloaded_frames_buffer[p] # <<>>
        /\ ~IsRunning(p)
        /\ DpStart(p)
  \/ \E p \in AudioPlanes : ProcessAudio(p, FALSE, MaxFrames)
  \/ \E n_frames \in 0 .. MaxFrames : AudioCallback(FALSE, FALSE, n_frames)

SpecMix == InitAll /\ [][NextMix]_vars

\* ------------------------------------------------------ ring: properties
IsPrefix(s, t) == Len(s) <= Len(t) /\ s = SubSeq(t, 1, Len(s))

\* Number of elements stored: accepted pushes minus completed pops.
Stored == Len(pushed) - Len(popped)

Quiescent == p_pc = "idle" /\ c_pc = "idle"

\* C1: with one producer and one consumer running concurrently, the items
\* returned by successful try_pop calls are, in order, a prefix of the items
\* accepted by successful try_push calls (nothing lost, duplicated, reordered,
\* torn or read before it was written), also after the indices wrapped.
C1_PopsArePrefixOfPushes == IsPrefix(popped, pushed)

\* Both threads are in the middle of a slot access after both indices have
\* wrapped, the producer writing a slot below the one the consumer reads.
C1_Witness ==
  /\ Len(popped) > RingSize
  /\ p_pc = "write_end"
  /\ c_pc = "read_end"
  /\ p_current_write < c_current_read

\* C2: never more than Size - 1 elements are stored; a try_push that tests
\* for fullness while fewer than Size - 1 are stored goes on to store its
\* item, and one that tests while Size - 1 are stored returns false and
\* leaves the indices (hence size()) and the slots unchanged.
C2_CapacityIsSizeMinusOne ==
  [][ (p_pc = "load_read" /\ p_pc' # "load_read") =>
        /\ Stored <= RingSize - 1
        /\ (Stored < RingSize - 1) => (p_pc' = "write_begin")
        /\ (Stored = RingSize - 1) =>
              /\ p_pc' = "idle"
              /\ p_ret' = RetFalse
              /\ UNCHANGED <<m_buffer, m_write_index, m_read_index, pushed>>
    ]_vars

\* From the empty ring, Size - 1 pushes were accepted, the next was rejected
\* and the consumer was never called.
C2_Witness ==
  /\ Quiescent
  /\ p_ret = RetFalse
  /\ Len(pushed) = RingSize - 1
  /\ popped = <<>>
  /\ c_ret = None
  /\ SizeOf(m_write_index, m_read_index) = Capacity

\* C3: in every quiescent state, size() is the number of accepted pushes
\* minus the number of completed pops, and lies in 0 .. Size - 1.
C3_SizeIsPushesMinusPops ==
  Quiescent =>
    /\ SizeOf(m_write_index, m_read_index) = Len(pushed) - Len(popped)
    /\ SizeOf(m_write_index, m_read_index) \in 0 .. (RingSize - 1)

\* Size - 1 pushes, two pops, two more pushes: the write index has wrapped
\* below the read index and size() is Size - 1 again.
C3_Witness ==
  /\ Quiescent
  /\ Len(pushed) = RingSize + 1
  /\ Len(popped) = 2
  /\ m_write_index < m_read_index
  /\ SizeOf(m_write_index, m_read_index) = RingSize - 1

\* ------------------------------------------------ controller: properties
CtlConfig == <<p_device, p_data_planes, active_tracks, rt_open, rt_running,
               m_output_channels>>

C5_StartRejected ==
  [][ (/\ call'.op = "start"
       /\ \/ m_stream_state = Playing
          \/ p_device = NoDevice
          \/ ActiveOf(p_data_planes) = <<>>) =>
        /\ call'.ret = RetFalse
        /\ m_stream_state' = m_stream_state
        /\ (m_stream_state = Playing) => UNCHANGED CtlConfig
    ]_vars

\* A start was refused while Playing, with planes registered after the
\* successful start.
C5_Witness ==
  /\ call = Called("start", RetFalse)
  /\ m_stream_state = Playing
  /\ p_data_planes # active_tracks

\* C6: a start that returns false after the backend failed to open or to
\* start the stream, and a stop that returns false after the backend failed
\* to stop it, leave m_stream_state as it was: Idle or Stopped for start,
\* Playing for stop.
C6_BackendFailureKeepsState ==
  [][ /\ (/\ call' = Called("start", RetFalse)
          /\ ValidateStartPreconditions
          /\ ActiveOf(p_data_planes) # <<>>) =>
            /\ m_stream_state' = m_stream_state
            /\ m_stream_state' \in {Idle, Stopped}
      /\ (call' = Called("stop", RetFalse) /\ m_stream_state = Playing) =>
            m_stream_state' = Playing
    ]_vars

\* openStream succeeded and startStream failed in state Stopped.
C6_Witness ==
  /\ call = Called("start", RetFalse)
  /\ m_stream_state = Stopped
  /\ rt_open
  /\ ~rt_running

\* C7: stop in a state other than Playing returns false and changes neither
\* the state, nor the registered data planes, nor the stream handle, nor
\* anything else.
C7_StopWhenNotPlaying ==
  [][ (call'.op = "stop" /\ m_stream_state # Playing) =>
        /\ call'.ret = RetFalse
        /\ m_stream_state' = m_stream_state
        /\ UNCHANGED p_data_planes
        /\ UNCHANGED <<rt_open, rt_running>>
        /\ UNCHANGED CtlConfig
    ]_vars

\* stop was refused in state Stopped with a data plane registered again.
C7_Witness ==
  /\ call = Called("stop", RetFalse)
  /\ m_stream_state = Stopped
  /\ p_data_planes # <<>>

\* ------------------------------------------------ data plane: properties

\* C8: a process_audio call with a non-null output buffer on a data plane
\* that is not running zeroes the first n_frames * output_channels samples
\* of the buffer and leaves the statistics as they were; on a running data
\* plane it adds n_frames to total_frames_read and 1 to total_batches.
C8_ProcessAudioEffect ==
  [][ (call'.op = "process_audio" /\ call'.ret = "void") =>
        LET p == call'.dp
            n_frames == call'.n_frames
        IN IF ~IsRunning(p)
             THEN /\ \A k \in 1 .. (n_frames * m_output_channels[p]) :
                       call'.out[k] = 0
                  /\ m_audio_output_stats'[p] = m_audio_output_stats[p]
             ELSE /\ m_audio_output_stats'[p].total_frames_read =
                       m_audio_output_stats[p].total_frames_read + n_frames
                  /\ m_audio_output_stats'[p].total_batches =
                       m_audio_output_stats[p].total_batches + 1
    ]_vars

\* A stopped data plane that processed a batch earlier has just written a
\* full buffer of silence, its statistics still those of that batch.
C8_Witness ==
  /\ call.op = "process_audio" /\ call.ret = "void"
  /\ call.dp = "a1" /\ call.n_frames = MaxFrames
  /\ ~IsRunning("a1")
  /\ m_output_channels["a1"] = MaxChannels
  /\ \A k \in 1 .. (MaxFrames * MaxChannels) : call.out[k] = 0
  /\ m_audio_output_stats["a1"].total_batches = 1
  /\ m_audio_output_stats["a1"].total_frames_read > 0

\* C9: a running process_audio call on a data plane that holds preloaded
\* frames, starting with the read cursor r within the L preloaded frames,
\* leaves the cursor at min(r + n_frames, L), so the cursor never exceeds L.
C9_CursorStaysWithinPreloaded ==
  [][ (/\ call'.op = "process_audio" /\ call'.ret = "void"
       /\ IsRunning(call'.dp)
       /\ m_output_channels[call'.dp] > 0
       /\ m_preloaded_frames_buffer[call'.dp] # <<>>
       /\ m_read_position[call'.dp] <= PreloadedFrames(call'.dp)) =>
        LET p == call'.dp
        IN /\ m_read_position'[p] <= PreloadedFrames(p)
           /\ m_read_position'[p] =
                Min(m_read_position[p] + call'.n_frames, PreloadedFrames(p))
    ]_vars

\* C10: an audio_callback invoked by the running stream (context and output
\* buffer not null, n_frames > 0) adds 1 to total_batches and n_frames to
\* total_frames_read of every running data plane of the active list.
C10_CallbackPullsSource ==
  [][ (/\ call'.op = "audio_callback" /\ call'.ret = "0"
       /\ call'.n_frames > 0
       /\ m_stream_state = Playing /\ rt_running
       /\ m_output_channels[Head(active_tracks)] > 0) =>
        \A p \in Range(active_tracks) :
          (IsRunning(p) /\ Len(SelectSeq(active_tracks, LAMBDA q : q = p)) = 1) =>
            /\ m_audio_output_stats'[p].total_batches =
                 m_audio_output_stats[p].total_batches + 1
            /\ m_audio_output_stats'[p].total_frames_read =
                 m_audio_output_stats[p].total_frames_read + call'.n_frames
    ]_vars

\* ----------------------------------------------------- track: properties
\* C11: at every point a track's is_playing() is true exactly when the
\* controller's state is Playing, and a play() on a track that is not playing
\* whose stream start fails leaves is_playing() false.
C11_IsPlayingFollowsController ==
  [][/\ IsPlaying' <=> (m_stream_state' = Playing)
     /\ (call'.op = "play" /\ call'.ret = RetFalse /\ ~IsPlaying)
          => ~IsPlaying']_vars

\* a play() on a stopped track with a device and an audio data plane, whose
\* stream start failed in the backend
C11_Witness ==
  /\ call = Called("play", RetFalse)
  /\ m_is_playing
  /\ active_tracks # <<>>
  /\ prev_state = Playing
  /\ ~IsPlaying

\* ------------------------------------------------------ MIDI: properties
\* C12: each process_midi_message call on a MIDI data plane increases
\* total_messages_processed by exactly one if the data plane is running, and
\* leaves it unchanged if the data plane is stopped; no other data plane's
\* counter moves.
C12_MessageCountedIffRunning ==
  [][call'.op = "process_midi_message" =>
       /\ m_midi_input_stats'[call'.dp] =
            m_midi_input_stats[call'.dp]
              + (IF midi_stop_command[call'.dp] THEN 0 ELSE 1)
       /\ \A q \in MidiPlanes \ {call'.dp} :
            m_midi_input_stats'[q] = m_midi_input_stats[q]]_vars

\* m1 is running and has just counted its second message, while m2 was
\* served a message when stopped and counted none
C12_Witness ==
  /\ call = CalledOn("process_midi_message", "void", "m1", 0)
  /\ ~midi_stop_command["m1"]
  /\ m_midi_input_stats["m1"] = MaxCallbacks
  /\ m_midi_input_stats["m2"] = 0
  /\ \E i \in 1 .. Len(midi_deliveries) : midi_deliveries[i][2] = "m2"

\* C13: for every non-empty raw byte sequence passed to the MIDI callback the
\* decoded event has status = bytes[0], kind = the high nibble of status
\* (status & 0xF0), channel = the low nibble (status & 0x0F), data1 =
\* bytes[1] if present else 0 and data2 = bytes[2] if present else 0.
C13_DecodedFieldsEqualBytes ==
  cb_message # <<>> =>
    /\ midi_message.status = cb_message[1]
    /\ midi_message.type = 16 * (cb_message[1] \div 16)
    /\ midi_message.channel = cb_message[1] % 16
    /\ midi_message.data1 = (IF Len(cb_message) >= 2 THEN cb_message[2] ELSE 0)
    /\ midi_message.data2 = (IF Len(cb_message) >= 3 THEN cb_message[3] ELSE 0)

\* a two-byte Note On on channel 2 was decoded
C13_Witness ==
  /\ call = Called("midi_callback", "void")
  /\ cb_message = <<146, 60>>
  /\ midi_message.type = NoteOn
  /\ midi_message.channel = 2
  /\ midi_message.data1 = 60
  /\ midi_message.data2 = 0

\* C14: every message processed by a running MIDI data plane is dispatched
\* to its track's handler: when the callback, fed [0x92, 60, 100], hands the
\* message to a running data plane, the track's note-on callback is invoked
\* exactly once, with channel 2, note_number 60 and velocity 100.
C14_NoteOnDispatched ==
  [][(/\ call'.op = "process_midi_message"
      /\ ~midi_stop_command[call'.dp]
      /\ cb_message = <<146, 60, 100>>) =>
       user_callbacks' =
         Append(user_callbacks,
                [callback |-> "note_on", channel |-> 2,
                 number |-> 60, value |-> 100])]_vars

\* The data planes served by callback number k, in the order served.
ServedBy(k) ==
  LET OfK(d) == d[1] = k
      served == SelectSeq(midi_deliveries, OfK)
  IN [i \in 1 .. Len(served) |-> served[i][2]]

\* C15: every active track's data plane receives the decoded messages in
\* the order the callbacks were invoked, and each message is delivered once
\* to every entry of active_tracks before the next message is delivered to
\* any: the deliveries are sorted by callback number, a callback in flight
\* has served exactly the entries before cb_next, and a callback that
\* returns has served exactly active_tracks.
C15_DeliveredInArrivalOrder ==
  [][/\ \A i, j \in 1 .. Len(midi_deliveries') :
          i < j => midi_deliveries'[i][1] <= midi_deliveries'[j][1]
     /\ cb_next' > 0 =>
          ServedBy(midi_callbacks)' =
            SubSeq(midi_active_tracks', 1, cb_next' - 1)
     /\ (midi_callbacks' > 0 /\ cb_next' = 0
           /\ call'.op \in {"midi_callback", "process_midi_message"}
           /\ call'.ret = "void") =>
          ServedBy(midi_callbacks)' = midi_active_tracks']_vars

\* the second message has been delivered to m2 and then m1, after the first
\* was delivered to both, and the callback has returned
C15_Witness ==
  /\ cb_next = 0
  /\ midi_callbacks = MaxCallbacks
  /\ midi_active_tracks = <<"m2", "m1">>
  /\ Len(midi_deliveries) = 2 * MaxCallbacks
  /\ call = CalledOn("process_midi_message", "void", "m1", 0)

\* The track graph is a forest: no track is its own ancestor, a track is
\* listed at most once and under one parent only, and c is among p's
\* children exactly when c's parent is p.
Forest ==
  /\ \A t \in AllTracks : t \notin Ancestors(t)
  /\ \A p \in AllTracks : \A i, j \in 1 .. Len(m_children[p]) :
       m_children[p][i] = m_children[p][j] => i = j
  /\ \A p, c \in AllTracks :
       c \in Range(m_children[p]) <=> m_parent[c] = p

\* C16: after any sequence of add_child, remove_child and
\* remove_from_parent calls (and of the manager operations built on them)
\* the track graph is a forest, and an add_child(c) where c already has a
\* parent, is the receiver itself, or is an ancestor of the receiver fails
\* and leaves the tree unchanged.
C16_TrackGraphIsForest ==
  [][/\ Forest'
     /\ call'.op = "add_child_track" =>
          LET p == call'.dp[1]
              c == call'.dp[2]
          IN (m_parent[c] # NullTrack \/ c = p \/ c \in Ancestors(p)) =>
               /\ call'.ret = "throws"
               /\ m_parent' = m_parent
               /\ m_children' = m_children]_vars

\* with A -> B -> C, C.add_child(A) has been refused
C16_Witness ==
  /\ call.op = "add_child_track"
  /\ call.ret = "throws"
  /\ LET p == call.dp[1]
         c == call.dp[2]
     IN /\ m_parent[c] = NullTrack
        /\ c # p
        /\ m_parent[p] # c
        /\ c \in Ancestors(p)

\* C17: there is exactly one MainTrack among get_all_tracks() and it is the
\* first element; remove_track(MainTrack) is rejected with an error and
\* leaves the track tree unchanged.
C17_OneMainTrackFirst ==
  [][/\ Cardinality({i \in 1 .. Len(GetAllTracks') :
                       IsMainTrack(GetAllTracks'[i])}) = 1
     /\ IsMainTrack(GetAllTracks'[1])
     /\ (call'.op = "remove_track" /\ call'.dp = MainTrack) =>
          /\ call'.ret = "throws"
          /\ m_parent' = m_parent
          /\ m_children' = m_children
          /\ n_tracks' = n_tracks]_vars

\* remove_track(MainTrack) has been rejected while the MainTrack has
\* children
C17_Witness ==
  /\ call.op = "remove_track"
  /\ call.dp = MainTrack
  /\ call.ret = "throws"
  /\ GetTrackCount >= 3

C19_NestedChildCreated ==
  [][(/\ call'.op = "create_child_track"
      /\ call'.dp # NullTrack
      /\ call'.dp # MainTrack
      /\ MainTrack \in Ancestors(call'.dp)) =>
       /\ m_parent'[call'.ret] = call'.dp
       /\ Len(m_children'[call'.dp]) = Len(m_children[call'.dp]) + 1
       /\ GetTrackCount' = GetTrackCount + 1
       /\ Len(GetAllTracks') = Len(GetAllTracks) + 1]_vars

\* The tracks below t
Descendants(t) == {d \in AllTracks : t \in Ancestors(d)}

\* C20: after remove_track(t) for a non-main track t, neither t nor any
\* track that was a descendant of t appears in get_all_tracks(), t's former
\* children have no parent, and every other track keeps its parent.
C20_RemovedSubtreeOrphaned ==
  [][(/\ call'.op = "remove_track"
      /\ call'.dp # NullTrack
      /\ call'.dp # MainTrack) =>
       LET t == call'.dp
       IN /\ Range(GetAllTracks') \cap ({t} \cup Descendants(t)) = {}
          /\ \A c \in AllTracks :
               m_parent[c] = t => m_parent'[c] = NullTrack
          /\ \A u \in AllTracks :
               (u # t /\ m_parent[u] # t) => m_parent'[u] = m_parent[u]]_vars

\* ------------------------------------------- channel remap: properties
\* C21: with a preloaded mono source, output_channels > 1 and the read
\* cursor at its start, a running process_audio call for all the frames of
\* the source writes each mono sample to every output channel of its frame
\* ([0.5, -0.5, 1.0, -1.0] becomes [0.5, 0.5, -0.5, -0.5, 1.0, 1.0, -1.0,
\* -1.0] on two channels).
C21_MonoDuplicated ==
  [][ (/\ call'.op = "process_audio" /\ call'.ret = "void"
       /\ IsRunning(call'.dp)
       /\ m_output_channels[call'.dp] > 1
       /\ m_read_position[call'.dp] = 0
       /\ call'.n_frames > 0
       /\ call'.n_frames = Len(m_preloaded_frames_buffer[call'.dp])) =>
        LET p == call'.dp
            oc == m_output_channels[p]
        IN \A i \in 0 .. (call'.n_frames - 1), ch \in 0 .. (oc - 1) :
             call'.out[i * oc + ch + 1] = m_preloaded_frames_buffer[p][i + 1]
    ]_vars

\* ------------------------------------------------ ring size: properties
\* C25: a size() called on the producer's or the consumer's thread while the
\* other thread pushes or pops returns a value in 0 .. Size - 1 that is the
\* number of stored elements at some instant of the call: the other thread
\* moves that number one step at a time in one direction, so the value lies
\* between the numbers stored when the call began and when it returned.
C25_SizeIsCountDuringCall ==
  [][ ("size_load_read" \in {p_pc, c_pc} /\ "size_load_read" \notin {p_pc', c_pc'}) =>
        /\ z_ret' \in 0 .. (RingSize - 1)
        /\ Min(z_start, Stored) <= z_ret'
        /\ z_ret' <= Max(z_start, Stored)
    ]_vars

\* the consumer's size() returned 2 although one element was stored when it
\* began and three when it returned: the producer pushed during the call
C25_Witness ==
  /\ c_pc = "idle"
  /\ z_ret = 2
  /\ z_start = 1
  /\ Stored = 3
  /\ popped # <<>>

\* ------------------------------------------- streaming plane: properties
\* Sample c of the i-th input frame of ci channels waiting in the ring
RingFrameSample(i, c, ci) == m_buffer[(m_read_index + i * ci + c) % RingSize]

\* C22: every output frame of a running streaming process_audio call that
\* is built from a fully popped input frame follows the remap rule:
\* Ci == Co copies; Ci == 1, Co > 1 duplicates the mono sample; Ci > Co
\* copies the first Co channels; 1 < Ci < Co copies the Ci channels and
\* zero-fills channels Ci .. Co - 1.
C22_RemapRule ==
  [][ (call'.op = "stream_process_audio" /\ call'.ret = "void"
       /\ tadp.m_input_channels >= 1) =>
        LET ci == tadp.m_input_channels
            co == tadp.m_output_channels
            avail == SizeOf(m_write_index, m_read_index)
        IN \A i \in 0 .. (call'.n_frames - 1) :
             (i + 1) * ci <= avail =>
               \A ch \in 0 .. (co - 1) :
                 LET o == call'.out[i * co + ch + 1]
                 IN /\ ci = co => o = RingFrameSample(i, ch, ci)
                    /\ (ci = 1 /\ co > 1) => o = RingFrameSample(i, 0, ci)
                    /\ ci > co => o = RingFrameSample(i, ch, ci)
                    /\ (1 < ci /\ ci < co) =>
                         o = IF ch < ci THEN RingFrameSample(i, ch, ci) ELSE 0
    ]_vars

\* a stereo frame (1, 2) was written to three output channels as (1, 2, 0)
C22_Witness ==
  /\ call.op = "stream_process_audio" /\ call.ret = "void"
  /\ call.n_frames >= 1
  /\ tadp.m_input_channels = 2
  /\ tadp.m_output_channels = 3
  /\ SubSeq(call.out, 1, 3) = <<1, 2, 0>>

\* C23: a running streaming process_audio call for n_frames frames on a
\* ring that holds only k < n_frames whole frames adds n_frames - k to the
\* underrun counter, writes zero for every sample of the missing frames and
\* still adds n_frames to total_frames_read (2 frames held, 8 requested: 6).
C23_UnderrunCounted ==
  [][ (call'.op = "stream_process_audio" /\ call'.ret = "void"
       /\ tadp.m_input_channels >= 1
       /\ SizeOf(m_write_index, m_read_index) % tadp.m_input_channels = 0
       /\ SizeOf(m_write_index, m_read_index) \div tadp.m_input_channels
            < call'.n_frames) =>
        LET k == SizeOf(m_write_index, m_read_index) \div tadp.m_input_channels
            co == tadp.m_output_channels
        IN /\ tadp'.underrun_count =
                tadp.underrun_count + (call'.n_frames - k)
           /\ \A j \in (k * co + 1) .. (call'.n_frames * co) :
                call'.out[j] = 0
           /\ tadp'.total_frames_read =
                tadp.total_frames_read + call'.n_frames
    ]_vars

\* one stereo frame was held and two were requested: the first output frame
\* is the frame, the second is silence, one underrun was counted
C23_Witness ==
  /\ call.op = "stream_process_audio" /\ call.ret = "void"
  /\ call.n_frames = 2
  /\ tadp.m_input_channels = 2
  /\ tadp.m_output_channels = 2
  /\ SubSeq(call.out, 1, 4) = <<1, 2, 0, 0>>
  /\ tadp.underrun_count = 1
  /\ tadp.total_frames_read = 2
  /\ tadp.total_batches = 1

\* C24: whenever the reader thread cannot enqueue a sample because the ring
\* is full, the sample is dropped, the overrun counter is incremented for
\* it, and production continues with the next sample.
C24_DroppedSampleCounted ==
  [][ (call'.op = "reader_push" /\ call'.ret = RetFalse) =>
        /\ m_buffer' = m_buffer
        /\ m_write_index' = m_write_index
        /\ tadp'.overrun_count > tadp.overrun_count
        /\ rd'.i = rd.i + 1
    ]_vars

\* ------------------------------------------------ track inputs: properties
\* C26: add_audio_input fails with an error when the track already has an
\* audio input bound or when the supplied device has zero input channels,
\* and in both cases the track's audio input binding is unchanged.
C26_AddAudioInputRejected ==
  [][ (/\ call'.op = "add_audio_input"
       /\ \/ m_audio_input # NullOpt
          \/ (call'.dp.kind = "device" /\ call'.dp.input_channels = 0)) =>
        /\ call'.ret = "throws"
        /\ m_audio_input' = m_audio_input
    ]_vars

\* an output-only device was refused by a track without input, which still
\* has none
C26_Witness ==
  /\ call.op = "add_audio_input"
  /\ call.ret = "throws"
  /\ call.dp.kind = "device"
  /\ call.dp.input_channels = 0
  /\ call.dp.output_channels > 0
  /\ m_audio_input = NullOpt

\* --------------------------------------- controller: output device change
\* C27: set_output_device with an output device while the controller is
\* Playing closes the existing stream and leaves the controller Idle.
C27_SetDeviceWhilePlayingGoesIdle ==
  [][ (/\ call'.op = "set_output_device" /\ call'.ret = "void"
       /\ m_stream_state = Playing) =>
        /\ ~rt_open'
        /\ m_stream_state' = Idle
    ]_vars

\* ------------------------------------------------ DoubleBuffer: properties
\* C28: with one producer (get_write_buffer, write, publish) and one
\* consumer (is_read_ready, get_read_buffer, read) the vector the consumer
\* is reading is never the vector the producer is writing.
C28_ReaderAndWriterApart ==
  (dbc.pc = "reading" /\ dbc.ready /\ dbp.pc = "writing") =>
    dbc.buf # dbp.buf

\* C29: in single-threaded use is_read_ready() is false initially, true
\* after publish() and false again after get_read_buffer(); the
\* get_read_buffer() that follows a publish() returns the data written to
\* the write buffer before that publish, and data written but not yet
\* published is not visible through it.
C29_PublishReadCycle ==
  [][ /\ (dbp.writes' = 0 /\ call'.op # "get_read_buffer") =>
           ~db.m_read_ready'
      /\ (call'.op = "publish" /\ call'.ret = "void") =>
           /\ db.m_read_ready'
           /\ db.m_buffer'[db.m_read_buffer'] = db.m_buffer[dbp.buf]
      /\ (call'.op = "is_read_ready") => call'.ret = db.m_read_ready
      /\ (call'.op = "get_read_buffer" /\ call'.ret # "running") =>
           /\ ~db.m_read_ready'
           /\ db.m_buffer[call'.ret] = db.published
      /\ (call'.op = "write") =>
           db.m_buffer'[db.m_read_buffer] = db.m_buffer[db.m_read_buffer]
    ]_vars

\* second cycle: the second fill was published and read back while the
\* producer has not begun a third
C29_Witness ==
  /\ call.op = "get_read_buffer"
  /\ call.ret = db.m_read_buffer
  /\ dbp.writes = 2
  /\ db.published = 2
  /\ db.m_buffer[dbc.buf] = 2
  /\ ~db.m_read_ready

\* ------------------------------------------ AudioBatchProducer: properties
\* C30: a started AudioBatchProducer whose consumer keeps popping until
\* production is done and the ring is empty delivers every input sample
\* exactly once and in input order; once the producer has finished
\* is_done() is true, is_running() is false and the completion callback
\* has been invoked exactly once.
C30_AllSamplesOnceInOrder ==
  /\ IsPrefix(bc.consumed_data, bp.sample_data)
  /\ bc.pc \in {"stop", "join", "stopped"} =>
       bc.consumed_data = bp.sample_data
  /\ bp.pc = "finished" =>
       /\ bp.m_done_producing
       /\ ~bp.m_is_running
       /\ bp.callbacks = 1
  /\ bp.callbacks <= 1

\* more samples than the ring holds, in more than one batch, the last one
\* short; the consumer is through and the producer joined
C30_Witness ==
  /\ bc.pc = "stopped"
  /\ bp.pc = "finished"
  /\ Len(bp.sample_data) > Capacity
  /\ bp.batch_size = 2
  /\ Len(bp.sample_data) % 2 = 1
  /\ bc.consumed_data = bp.sample_data
  /\ bp.callbacks = 1

\* ------------------------------------------- controller: more properties
\* C31: the callback context's active_tracks list changes only while the
\* controller is not Playing and the stream is not running; in the Playing
\* state no start, stop, register_dataplane or set_output_device changes it.
C31_ActiveTracksStableWhilePlaying ==
  [][ (m_stream_state = Playing \/ rt_running) =>
        active_tracks' = active_tracks ]_vars

\* a start() refused in the Playing state after a further data plane was
\* registered: the list the callback reads is still the one built before
C31_Witness ==
  /\ call.op = "start" /\ call.ret = RetFalse
  /\ m_stream_state = Playing
  /\ rt_running
  /\ active_tracks # <<>>
  /\ ActiveOf(p_data_planes) # active_tracks

\* ------------------------------------- streaming plane: more properties
\* C32: with the reader thread feeding the ring, every output frame of a
\* running streaming process_audio call that is not underrun silence is
\* made of the Ci consecutive samples of one source frame in channel order
\* (here Ci = Co = the file's channel count, so the frame is copied): a
\* partly popped frame or a dropped sample never shifts later frames.
C32_FramesStayAligned ==
  [][ (call'.op = "stream_process_audio" /\ call'.ret = "void"
       /\ rd.pc # "none"
       /\ tadp.m_input_channels >= 2
       /\ tadp.m_input_channels = rd.channels
       /\ tadp.m_output_channels = rd.channels) =>
        LET ci == tadp.m_input_channels
        IN \A i \in 0 .. (call'.n_frames - 1) :
             LET frame_out == SubSeq(call'.out, i * ci + 1, (i + 1) * ci)
             IN \/ \A ch \in 1 .. ci : frame_out[ch] = 0
                \/ /\ (frame_out[1] - 1) % ci = 0
                   /\ \A ch \in 1 .. ci :
                        frame_out[ch] = frame_out[1] + (ch - 1)
    ]_vars

\* Sample v is waiting in the ring.
InRing(v) ==
  \E k \in 0 .. (SizeOf(m_write_index, m_read_index) - 1) :
    m_buffer[(m_read_index + k) % RingSize] = v

\* Sample v is in the output of the process_audio call just made.
InOutput(v) ==
  /\ call.op = "stream_process_audio"
  /\ \E k \in 1 .. Len(call.out) : call.out[k] = v

\* C33: with the callback invoked again and again, every sample the reader
\* thread pushed into the ring is eventually written to an output frame,
\* also after the end of the file (mono in, mono out, so that no sample is
\* lost to a partly popped frame; while callbacks remain within
\* MaxBatches).
C33_PushedSamplesArePlayed ==
  \A v \in 1 .. MaxFileFrames :
    (/\ InRing(v)
     /\ rd.channels = 1
     /\ tadp.m_input_channels = 1
     /\ tadp.m_output_channels = 1)
      ~> (InOutput(v) \/ tadp.total_batches = MaxBatches)

\* ------------------------------------------------- MainTrack: properties
\* C34: MainTrack::start() returns true exactly when the audio stream
\* controller went to Playing in that call, and MainTrack::stop() returns
\* true exactly when the audio stream controller went to Stopped in it.
C34_MainTrackReturnsControllerResult ==
  [][ /\ call'.op = "main_track_start" =>
           (MainTrackStartReturns(call'.ret) <=>
              (m_stream_state # Playing /\ m_stream_state' = Playing))
      /\ call'.op = "main_track_stop" =>
           (MainTrackStopReturns(call'.ret) <=>
              (m_stream_state = Playing /\ m_stream_state' = Stopped))
    ]_vars

\* C35: whenever the controller is not Playing the backend stream is
\* closed; a start() that opens the stream and then fails to start it does
\* not leave it open.
C35_StreamClosedUnlessPlaying ==
  m_stream_state # Playing => ~rt_open

\* C36: a successful stop() leaves no registered data plane; a start() in
\* the Stopped state with none registered returns false and stays Stopped;
\* Stopped goes to Playing only with data planes registered since the stop.
C36_RestartNeedsRegistration ==
  [][ /\ (call'.op = "stop" /\ call'.ret = RetTrue) => p_data_planes' = <<>>
      /\ (m_stream_state' = Stopped /\ m_stream_state # Stopped) =>
           p_data_planes' = <<>>
      /\ (call'.op = "start" /\ m_stream_state = Stopped
          /\ p_data_planes = <<>>) =>
           /\ call'.ret = RetFalse
           /\ m_stream_state' = Stopped
      /\ (m_stream_state = Stopped /\ m_stream_state' = Playing) =>
           /\ call'.op = "start"
           /\ p_data_planes # <<>>
    ]_vars

\* the stream was restarted from Stopped after a new registration
C36_Witness ==
  /\ call.op = "start" /\ call.ret = RetTrue
  /\ prev_state = Stopped
  /\ m_stream_state = Playing
  /\ p_data_planes # <<>>

\* The samples waiting in the ring, oldest first.
RingContents ==
  [k \in 1 .. SizeOf(m_write_index, m_read_index) |->
     m_buffer[(m_read_index + k - 1) % RingSize]]

\* C37: when stop() is called on an AudioBatchProducer before it has
\* pushed all samples, stop() returns with is_running() false, and the
\* samples pushed into the ring (those popped since, then those waiting)
\* are a contiguous prefix of the input: none is skipped while a later one
\* is pushed.
C37_EarlyStopLeavesPrefix ==
  /\ bc.pc = "stopped" => ~bp.m_is_running
  /\ IsPrefix(bc.consumed_data \o RingContents, bp.sample_data)

\* ------------------------------------------------- callback: properties
\* Sum, over the entries of the active list, of sample i of each track's
\* output buffer (0 where the buffer is shorter).
RECURSIVE TrackSum(_, _, _)
TrackSum(buffers, tracks, i) ==
  IF tracks = <<>> THEN 0
  ELSE (IF i <= Len(buffers[Head(tracks)]) THEN buffers[Head(tracks)][i] ELSE 0)
       + TrackSum(buffers, Tail(tracks), i)

\* C38: when audio_callback returns success with a non-empty active list,
\* every device output sample i < n_frames * output_channels equals the
\* plain sum, over all active tracks, of sample i of that track's output
\* buffer (0 where the buffer is shorter): the device buffer is zeroed
\* first and each track is added exactly once.
C38_OutputIsSumOfTracks ==
  [][ (call'.op = "audio_callback" /\ call'.ret = "0"
       /\ active_tracks # <<>>) =>
        \A i \in 1 .. (call'.n_frames * m_output_channels[Head(active_tracks)]) :
           call'.out[i] = TrackSum(m_output_buffer', active_tracks, i)
    ]_vars

\* two different tracks with sounding output buffers were mixed
C38_Witness ==
  /\ call.op = "audio_callback" /\ call.ret = "0"
  /\ call.n_frames > 0
  /\ Len(active_tracks) = 2
  /\ active_tracks[1] # active_tracks[2]
  /\ \A p \in Range(active_tracks) :
        m_output_buffer[p] # <<>> /\ m_output_buffer[p][1] > 0
  /\ call.out[1] = m_output_buffer["a1"][1] + m_output_buffer["a2"][1]

\* C39: audio_callback returns a non-zero error code when the callback
\* context is null, and returns success when the output pointer is null or
\* the active-track list is empty; in all three cases no output sample is
\* written and no track's process_audio is called (the tracks' read
\* positions, output buffers and statistics stay as they were).
C39_EarlyReturnsTouchNothing ==
  [][ \A ctx_null \in BOOLEAN, out_null \in BOOLEAN, n_frames \in 0 .. MaxFrames :
        (/\ AudioCallback(ctx_null, out_null, n_frames)
         /\ (ctx_null \/ out_null \/ active_tracks = <<>>)) =>
          /\ ctx_null => call'.ret = "1"
          /\ ~ctx_null => call'.ret \in {"0", "0null"}
          /\ call'.out \in {<<>>, FreshOut}
          /\ UNCHANGED <<m_read_position, m_output_buffer, m_audio_output_stats>>
    ]_vars

\* the callback came with a null output pointer while a running track was
\* in the active list
C39_Witness ==
  /\ call.op = "audio_callback" /\ call.ret = "0null"
  /\ call.n_frames > 0
  /\ m_stream_state = Playing
  /\ \E p \in Range(active_tracks) : IsRunning(p) /\ m_output_channels[p] > 0

====
